---- MODULE Spec2Model ----
(***************************************************************************)
(* Verification model of the hdegis-chat-backend RAG service.              *)
(*                                                                         *)
(* The synchronous pipeline code (search adapter, Retriever, RAGPipeline)  *)
(* is modelled by operators that compute what the Python code computes;    *)
(* everything the outside world decides (what the search engine answers,   *)
(* which calls fail, what the generation model streams) is an explicit     *)
(* environment argument.  SpecExpand, SpecSearch and SpecRun apply these   *)
(* operators to bounded inputs.  The streaming protocol of ChatService     *)
(* is modelled as a state machine (Spec): the event-loop coroutine and the *)
(* two worker-thread tasks it hands off are separate processes.            *)
(*                                                                         *)
(* Conventions: a Python str is a sequence of one-character strings; None, *)
(* a missing dict key and "" are told apart only where the code does;      *)
(* float weights are kept in tenths (0.3 is 3); an optional argument is a  *)
(* sequence of length at most one.                                         *)
(***************************************************************************)
EXTENDS Integers, Sequences, FiniteSets, TLC

VARIABLES
    config,            \* Retriever.config: the live SearchConfig of the pipeline
    wiring,            \* which collaborators the Retriever was built with
    op,                \* the operation applied and its arguments
    ret,               \* what the operation returned or raised
    cpc,               \* generate_streaming_response: position of the coroutine
    request,           \* the streaming request: environment of this call
    search_results_task, \* future of get_search_results_sync on a worker thread
    stream_task,       \* future of get_streaming_generator on a worker thread
    stream_generator,  \* the answer-chunk generator being drained
    chunk_buffer,      \* re-chunking buffer
    full_answer,       \* concatenation of the upstream chunks pulled so far
    events,            \* StreamEvents yielded so far, in order
    frames,            \* SSE frames written by the route's event_stream
    calls,             \* provider-adapter calls of this request, with the thread
    threads,           \* concurrent requests: each worker thread's position and locals
    shared             \* what the threads of the process share (cache, local files)

vars == << config, wiring, op, ret, cpc, request, search_results_task,
           stream_task, stream_generator, chunk_buffer, full_answer, events,
           frames, calls, threads, shared >>

procVars == << threads, shared >>
opVars == << op, ret >>
chatVars == << cpc, request, search_results_task, stream_task, stream_generator,
               chunk_buffer, full_answer, events, frames, calls >>

----------------------------------------------------------------------------
(* Bounds of the model.                                                    *)

MaxHits == 2        \* longest hit list a search engine answer carries
MaxTol == 2         \* largest page-expansion tolerance tried
MaxPage == 3        \* pages 0..MaxPage of a document may be ranked hits
MaxChunks == 2      \* longest upstream answer stream (chunks)

\* An optional argument: << >> when absent (None), << v >> when given.
Absent == << >>
Given(v) == << v >>

----------------------------------------------------------------------------
(* Generic helpers.                                                        *)

Range(s) == { s[i] : i \in DOMAIN s }

Take(s, n) == SubSeq(s, 1, IF n < Len(s) THEN n ELSE Len(s))

Drop(s, n) == SubSeq(s, (IF n < Len(s) THEN n ELSE Len(s)) + 1, Len(s))

Min(a, b) == IF a < b THEN a ELSE b

SeqsUpTo(S, n) == UNION { [1..k -> S] : k \in 0..n }

Injective(s) == \A i, j \in DOMAIN s : i # j => s[i] # s[j]

\* A text of n distinct characters that stands for a fixed message.
Chars(tag, n) == [i \in 1..n |-> tag \o ToString(i)]

----------------------------------------------------------------------------
(* Page numbers.  The index stores page_number as a zero-padded string;    *)
(* expand_search_results parses it with int() and formats neighbours with  *)
(* f"{n:05d}".                                                             *)

RECURSIVE Digits(_)
\* str(n) for n >= 0, as a sequence of digits
Digits(n) == IF n < 10 THEN << n >> ELSE Append(Digits(n \div 10), n % 10)

RECURSIVE ZeroPad(_, _)
ZeroPad(d, width) == IF Len(d) >= width THEN d ELSE ZeroPad(<< 0 >> \o d, width)

\* f"{new_num:05d}": at least five digits, never truncated
FormatPage(n) == ZeroPad(Digits(n), 5)

RECURSIVE ParseInt(_)
\* int(page_str) on a string of digits
ParseInt(d) == IF d = << >> THEN 0 ELSE 10 * ParseInt(SubSeq(d, 1, Len(d) - 1)) + d[Len(d)]

----------------------------------------------------------------------------
(* Hits and the search index (the boundary search engine's content).       *)
(* A hit is the dict the engine returns: _id, _score and, from _source,    *)
(* gcs_pdf_path and page_number ("" when the key is missing).              *)

EXPANDED_SCORE == 0 - 1   \* new_hit["_score"] = -1

Doc(id, path, page_str) ==
    [id |-> id, score |-> 1, gcs_pdf_path |-> path, page_number |-> page_str]

\* Documents of the index: A.pdf has a page for 0..MaxPage+MaxTol and two
\* chunks on page 1; B.pdf has pages 0 and 1; ids are unique.
IndexDocs ==
    { Doc(100 + p, "A.pdf", FormatPage(p)) : p \in 0..(MaxPage + MaxTol) }
    \cup { Doc(201, "A.pdf", FormatPage(1)) }
    \cup { Doc(300 + p, "B.pdf", FormatPage(p)) : p \in 0..1 }

\* Documents a ranked search may return: pages 0..MaxPage of A.pdf, page 0 of
\* B.pdf, one document indexed without a path and one without a page number.
RankedDocs ==
    { d \in IndexDocs : d.gcs_pdf_path = "A.pdf" /\ d.id < 200
                        /\ ParseInt(d.page_number) <= MaxPage }
    \cup { d \in IndexDocs : d.id = 300 }
    \cup { Doc(400, "", FormatPage(2)), Doc(401, "A.pdf", << >>) }

\* The engine ranks: scores are positive, decreasing and may exceed 1.
Ranked(docs) == [i \in DOMAIN docs |-> [docs[i] EXCEPT !.score = Len(docs) + 2 - i]]

\* Every answer the engine can give to a ranked search of size top_k.
HitLists(top_k) ==
    { Ranked(docs) : docs \in { s \in SeqsUpTo(RankedDocs, top_k) : Injective(s) } }

RECURSIVE SortById(_)
SortById(S) ==
    IF S = {} THEN << >>
    ELSE LET d == CHOOSE x \in S : \A y \in S : x.id <= y.id
         IN << d >> \o SortById(S \ {d})

\* The engine's answer to the exact-match lookup of (path, page string).
TermLookup(path, page_str) ==
    SortById({ d \in IndexDocs : d.gcs_pdf_path = path /\ d.page_number = page_str })

\* Sets of lookups (path, page string) that fail in one call.
FailSets ==
    { {}, { << "A.pdf", FormatPage(2) >> },
      { << "A.pdf", FormatPage(1) >>, << "B.pdf", FormatPage(1) >> } }

----------------------------------------------------------------------------
(* ElasticSearcher.expand_search_results                                   *)
(* The running state st is [expanded_hits, seen_ids, lookups]; lookups is  *)
(* the log of conn.search calls: [hit index, path, page string].           *)

RECURSIVE AddNewHits_NoSeenCheck(_, _)
\* variant: the loop does not consult seen_ids
AddNewHits_NoSeenCheck(resp, st) ==
    IF resp = << >> THEN st
    ELSE AddNewHits_NoSeenCheck(Tail(resp),
            [st EXCEPT !.expanded_hits = Append(@, [Head(resp) EXCEPT !.score = EXPANDED_SCORE]),
                       !.seen_ids = @ \cup {Head(resp).id}])

RECURSIVE AddNewHits(_, _)
\* the loop over the response's hits
AddNewHits(resp, st) ==
    IF resp = << >> THEN st
    ELSE LET new_hit == Head(resp)
             nid == new_hit.id
         IN IF nid # 0 /\ nid \notin st.seen_ids   \* id 0: no _id in the hit
            THEN AddNewHits(Tail(resp),
                    [st EXCEPT !.expanded_hits =
                                   Append(@, [new_hit EXCEPT !.score = EXPANDED_SCORE]),
                               !.seen_ids = @ \cup {nid}])
            ELSE AddNewHits(Tail(resp), st)

\* variant: a failing lookup discards the hits found so far
ExpandPage_FailureDiscards(i, path, new_num, failing, st) ==
    IF new_num < 0 THEN st
    ELSE LET new_page == FormatPage(new_num)
             st1 == [st EXCEPT !.lookups =
                        Append(@, [hit |-> i, path |-> path, page |-> new_page])]
         IN IF << path, new_page >> \in failing
            THEN [st1 EXCEPT !.expanded_hits = << >>]
            ELSE AddNewHits(TermLookup(path, new_page), st1)

\* variant: a negative page is looked up like any other
ExpandPage_NegativePages(i, path, new_num, failing, st) ==
    AddNewHits(TermLookup(path, FormatPage(new_num)),
               [st EXCEPT !.lookups = Append(@, [hit |-> i, path |-> path,
                                                 page |-> FormatPage(new_num)])])

\* One iteration of the delta loop (after the delta == 0 test): skip a
\* negative page, else look the page up; a failing lookup is logged and skipped.
ExpandPage(i, path, new_num, failing, st) ==
    IF new_num < 0 THEN st
    ELSE LET new_page == FormatPage(new_num)
             st1 == [st EXCEPT !.lookups =
                        Append(@, [hit |-> i, path |-> path, page |-> new_page])]
         IN IF << path, new_page >> \in failing
            THEN st1
            ELSE AddNewHits(TermLookup(path, new_page), st1)

RECURSIVE ExpandDeltas(_, _, _, _, _, _, _)
\* for delta in range(-tolerance, tolerance + 1)
ExpandDeltas(i, path, page_num, delta, tolerance, failing, st) ==
    IF delta > tolerance THEN st
    ELSE ExpandDeltas(i, path, page_num, delta + 1, tolerance, failing,
            IF delta = 0 THEN st
            ELSE ExpandPage(i, path, page_num + delta, failing, st))

RECURSIVE ExpandHits(_, _, _, _, _)
\* for hit in hits
ExpandHits(hits, i, tolerance, failing, st) ==
    IF i > Len(hits) THEN st
    ELSE LET gcs_pdf_path == hits[i].gcs_pdf_path
             page_str == hits[i].page_number
         IN ExpandHits(hits, i + 1, tolerance, failing,
                IF gcs_pdf_path = "" \/ page_str = << >>
                THEN st
                ELSE ExpandDeltas(i, gcs_pdf_path, ParseInt(page_str),
                                  0 - tolerance, tolerance, failing, st))

expand_search_results(index_name, hits, tolerance, failing) ==
    ExpandHits(hits, 1, tolerance, failing,
               [expanded_hits |-> << >>,
                seen_ids |-> { hits[i].id : i \in DOMAIN hits },
                lookups |-> << >>])

----------------------------------------------------------------------------
(* Retriever.expand_results                                                *)

combine_original_and_expanded(original_hits, expanded_hits) ==
    original_hits \o expanded_hits

\* `tolerance or self.config.tolerance`: None and 0 are both falsy
EffectiveTolerance(tolerance_arg, cfg) ==
    IF tolerance_arg = Absent \/ tolerance_arg = Given(0)
    THEN cfg.tolerance
    ELSE tolerance_arg[1]

\* the tuple expand_results returns once the adapter has answered with r
Expanded(hits, r) ==
    [expanded_hits |-> r.expanded_hits,
     total_hits |-> combine_original_and_expanded(hits, r.expanded_hits),
     lookups |-> r.lookups]

expand_results(cfg, hits, tolerance_arg, failing) ==
    IF EffectiveTolerance(tolerance_arg, cfg) = 0
    THEN [expanded_hits |-> << >>, total_hits |-> hits, lookups |-> << >>]
    ELSE Expanded(hits, expand_search_results(cfg.index_name, hits,
                                              EffectiveTolerance(tolerance_arg, cfg), failing))

----------------------------------------------------------------------------
(* FilterBuilder.create_folder_filters and Retriever._create_filters       *)

IsSpace(c) == c = " "

RECURSIVE lstrip(_)
lstrip(t) == IF t # << >> /\ IsSpace(Head(t)) THEN lstrip(Tail(t)) ELSE t

RECURSIVE rstrip(_)
rstrip(t) ==
    IF t # << >> /\ IsSpace(t[Len(t)]) THEN rstrip(SubSeq(t, 1, Len(t) - 1)) ELSE t

\* str.strip()
strip(t) == lstrip(rstrip(t))

RECURSIVE SplitFrom(_, _, _, _)
SplitFrom(t, sep, i, cur) ==
    IF i > Len(t) THEN << cur >>
    ELSE IF t[i] = sep THEN << cur >> \o SplitFrom(t, sep, i + 1, << >>)
    ELSE SplitFrom(t, sep, i + 1, Append(cur, t[i]))

\* str.split(sep): always at least one part
split(t, sep) == SplitFrom(t, sep, 1, << >>)

RECURSIVE FolderClauses_WholeTerm(_, _)
\* variant: the clause carries the whole trimmed term
FolderClauses_WholeTerm(filter_parts, field_name) ==
    IF filter_parts = << >> THEN << >>
    ELSE LET cleaned_part == strip(Head(filter_parts))
         IN (IF cleaned_part # << >>
             THEN << [match_phrase |-> [field |-> field_name, value |-> cleaned_part]] >>
             ELSE << >>)
            \o FolderClauses_WholeTerm(Tail(filter_parts), field_name)

RECURSIVE FolderClauses(_, _)
\* the loop over filter_parts
FolderClauses(filter_parts, field_name) ==
    IF filter_parts = << >> THEN << >>
    ELSE LET cleaned_part == strip(Head(filter_parts))
             segments == split(cleaned_part, "/")
             last_folder == strip(segments[Len(segments)])
         IN (IF cleaned_part # << >> /\ last_folder # << >>
             THEN << [match_phrase |-> [field |-> field_name, value |-> last_folder]] >>
             ELSE << >>)
            \o FolderClauses(Tail(filter_parts), field_name)

create_folder_filters(user_filter, field_name) ==
    IF user_filter = << >> \/ strip(user_filter) = << >>
    THEN << >>
    ELSE FolderClauses(split(strip(user_filter), "&"), field_name)

create_filters(user_filter) ==
    IF user_filter = << >> \/ strip(user_filter) = << >>
    THEN << >>
    ELSE create_folder_filters(user_filter, "gcs_path")

----------------------------------------------------------------------------
(* Static registries (config/model_mappings.py)                            *)

INDEX_MODEL_MAPPING ==
    ("hdegis-text-embedding-004" :> "text-embedding-004")
    @@ ("hdegis-text-embedding-005" :> "text-embedding-005")
    @@ ("hdegis-text-multilingual-embedding-002" :> "text-multilingual-embedding-002")

\* need_translation of each registered embedding model
EMBEDDING_MODELS ==
    ("text-embedding-004" :> TRUE)
    @@ ("text-embedding-005" :> TRUE)
    @@ ("text-multilingual-embedding-002" :> FALSE)

SEARCH_METHOD_REQUIREMENTS ==
    [vector |-> {"embedding_model_name", "vector_field"},
     keyword |-> {"text_fields"},
     hybrid |-> {"embedding_model_name", "vector_field", "text_fields"},
     hyde |-> {"embedding_model_name", "vector_field"},
     hyde_hybrid |-> {"embedding_model_name", "vector_field", "text_fields"}]

DEFAULT_FIELDS == [vector_field |-> "embedding", text_fields |-> << "extracted_text" >>]

\* dict with key k set to v
Put(d, k, v) == [x \in DOMAIN d \cup {k} |-> IF x = k THEN v ELSE d[x]]

\* dict.get(k, default)
Get(d, k, default) == IF k \in DOMAIN d THEN d[k] ELSE default

\* Optional[str]: the model of the index, absent when the index is not mapped
get_embedding_model_for_index(index_name) ==
    IF index_name \in DOMAIN INDEX_MODEL_MAPPING
    THEN Given(INDEX_MODEL_MAPPING[index_name])
    ELSE Absent

validate_search_method_requirements(search_method, kw) ==
    LET required_fields == IF search_method \in DOMAIN SEARCH_METHOD_REQUIREMENTS
                           THEN SEARCH_METHOD_REQUIREMENTS[search_method]
                           ELSE {}
    IN { f \in required_fields : f \notin DOMAIN kw }

\* the dict auto_configure_for_index builds before it validates
AutoConfigured(index_name, kw) ==
    LET auto_model == get_embedding_model_for_index(index_name)
        c1 == IF "embedding_model_name" \notin DOMAIN kw /\ auto_model # Absent
              THEN Put(kw, "embedding_model_name", auto_model[1])
              ELSE kw
        c2 == IF "vector_field" \notin DOMAIN c1
              THEN Put(c1, "vector_field", DEFAULT_FIELDS.vector_field)
              ELSE c1
    IN IF "text_fields" \notin DOMAIN c2
       THEN Put(c2, "text_fields", DEFAULT_FIELDS.text_fields)
       ELSE c2

\* [status |-> "ok", config |-> dict] or [status |-> "raise", exc |-> "ValueError"]
auto_configure_for_index(index_name, search_method, kw) ==
    LET c == AutoConfigured(index_name, kw)
    IN IF validate_search_method_requirements(search_method, c) # {}
       THEN [status |-> "raise", exc |-> "ValueError", config |-> c]
       ELSE [status |-> "ok", exc |-> "", config |-> c]

----------------------------------------------------------------------------
(* Outcomes and the log of provider-adapter calls.                         *)
(* Every operation returns [status, exc, hits, calls]: status "ok" with    *)
(* the hits, or status "raise" with the exception type; calls is the log   *)
(* of the calls made into provider adapters up to that point.              *)

Call(adapter, fn, args) == [adapter |-> adapter, fn |-> fn, args |-> args]

Ok(hits, call_log) == [status |-> "ok", exc |-> "", hits |-> hits, calls |-> call_log]

Raised(exc, call_log) == [status |-> "raise", exc |-> exc, hits |-> << >>, calls |-> call_log]

SearchCalls(call_log) == SelectSeq(call_log, LAMBDA c : c.adapter = "search")

\* What the environment does to one search: the ranked hits the engine holds
\* for the query, whether the engine call fails, whether embedding fails.
Engines(top_k) ==
    [raises : BOOLEAN, embed_raises : BOOLEAN, hits : HitLists(top_k)]

\* conn.search(index=..., body=..., size=top_k): the engine honours size
conn_search(c, size, engine, call_log) ==
    IF engine.raises
    THEN Raised("ConnectionError", Append(call_log, c))
    ELSE Ok(Take(engine.hits, size), Append(call_log, c))

----------------------------------------------------------------------------
(* Support utilities as far as they call provider adapters.                *)

\* InputProcessor.translate_text: never raises, falls back to the input
translate_text == << Call("translation", "translate_text", [target_language |-> "en"]) >>

\* QueryEnhancer.generate_keywords: never raises, falls back to the query
generate_keywords(translate_to_english) ==
    (IF translate_to_english THEN translate_text ELSE << >>)
    \o << Call("generation", "generate_text", [prompt |-> "keywords"]) >>

\* QueryEnhancer.generate_hyde_document: never raises, falls back to the query
generate_hyde_document(translate_to_english) ==
    (IF translate_to_english THEN translate_text ELSE << >>)
    \o << Call("generation", "generate_text", [prompt |-> "hyde"]) >>

\* GoogleEmbedder.embed_text(text, task="RETRIEVAL_QUERY")
embed_text(text) == << Call("embedding", "embed_text", [text |-> text, task |-> "RETRIEVAL_QUERY"]) >>

\* GoogleEmbedder.need_translation: registered flag, True for an unknown model
need_translation(model_name) ==
    IF model_name \in DOMAIN EMBEDDING_MODELS THEN EMBEDDING_MODELS[model_name] ELSE TRUE

----------------------------------------------------------------------------
(* ElasticSearcher: the ranked searches.  rev is the revision of the       *)
(* adapter: "app" (app/core/search, wired by app/factories.py) or "core"   *)
(* (core/search, the earlier one).                                         *)

DEFAULT_VECTOR_WEIGHT == 3   \* 0.3
DEFAULT_TEXT_WEIGHT == 7     \* 0.7

DEFAULT_RRF_K == 60

keyword_search(kw, engine, call_log) ==
    conn_search(Call("search", "keyword_search", kw), kw.top_k, engine, call_log)

\* the engine's answer to a knn query: the ranking of the text query unless
\* the environment gives another one
VectorRanking(engine) ==
    IF "vector_hits" \in DOMAIN engine THEN [engine EXCEPT !.hits = engine.vector_hits]
    ELSE engine

vector_search(kw, engine, call_log) ==
    conn_search(Call("search", "vector_search", kw), kw.top_k, VectorRanking(engine), call_log)

\* the parameters hybrid_search declares (self apart)
HybridSearchParameters(rev) ==
    {"index_name", "query", "query_vector", "text_fields", "vector_field", "top_k", "filters"}
    \cup (IF rev = "app" THEN {"fusion_method", "fusion_params"}
                         ELSE {"vector_weight", "text_weight"})

\* The combined knn + script_score query; the script text carries the weights.
convex_hybrid_search(kw, vector_weight, text_weight, engine, call_log) ==
    conn_search(Call("search", "hybrid_search",
                     [index_name |-> kw.index_name, query |-> kw.query,
                      query_vector |-> kw.query_vector, text_fields |-> kw.text_fields,
                      vector_field |-> kw.vector_field, top_k |-> kw.top_k,
                      filters |-> kw.filters,
                      script_vector_weight |-> vector_weight,
                      script_text_weight |-> text_weight]),
                kw.top_k, engine, call_log)

\* RRF scores are sums of 1/(rrf_k + rank): kept as fractions
Frac(n, d) == [num |-> n, den |-> d]
FracAdd(a, b) == Frac(a.num * b.den + b.num * a.den, a.den * b.den)
FracLess(a, b) == a.num * b.den < b.num * a.den

\* 1-based rank of a document in a result list, 0 when it is not in it (an
\* engine answer holds a document once)
RankOf(doc_id, results) ==
    IF \E r \in DOMAIN results : results[r].id = doc_id
    THEN CHOOSE r \in DOMAIN results : results[r].id = doc_id
    ELSE 0

RrfTerm(rank, rrf_k) == IF rank = 0 THEN Frac(0, 1) ELSE Frac(1, rrf_k + rank)

\* variant: only the text ranking contributes
RrfScore_TextOnly(doc_id, text_results, vector_results, rrf_k) ==
    FracAdd(RrfTerm(RankOf(doc_id, text_results), rrf_k), Frac(0, 1))

\* doc_scores[doc_id]
RrfScore(doc_id, text_results, vector_results, rrf_k) ==
    FracAdd(RrfTerm(RankOf(doc_id, text_results), rrf_k),
            RrfTerm(RankOf(doc_id, vector_results), rrf_k))

\* round(x, 1) rounds the double x.  A value that is exactly halfway between
\* two tenths in rational arithmetic is a double slightly above or below the
\* half (0.05 is above it, 0.15 below it, and the error of the divisions and
\* the sum can move it across), so the direction of such a tie is not fixed
\* by the arithmetic: half_up is the set of tenths q for which q + 0.5 rounds
\* up in this call.
HALF_EVEN == {1, 3, 5, 7, 9}

TieBreaks == { {}, HALF_EVEN, {0, 2, 4, 6, 8}, 0..9 }

\* variant: theoretical_max = 2 / rrf_k
NormalizedTenths_MaxAtRankZero(score, rrf_k, half_up) ==
    LET x == 5 * score.num * rrf_k
        q == x \div score.den
        r == x % score.den
        rounded == IF 2 * r > score.den \/ (2 * r = score.den /\ q \in half_up) THEN q + 1 ELSE q
    IN Min(10, rounded)

\* round(min(1, original_score / theoretical_max), 1) in tenths, where
\* theoretical_max = 2 / (rrf_k + 1)
NormalizedTenths(score, rrf_k, half_up) ==
    LET x == 5 * score.num * (rrf_k + 1)
        q == x \div score.den
        r == x % score.den
        rounded == IF 2 * r > score.den \/ (2 * r = score.den /\ q \in half_up) THEN q + 1 ELSE q
    IN Min(10, rounded)

RECURSIVE InsertByScore(_, _)
\* sorted(..., reverse=True) is stable: an entry goes after those that score
\* at least as much
InsertByScore(sorted_docs, entry) ==
    IF sorted_docs = << >> THEN << entry >>
    ELSE IF FracLess(Head(sorted_docs).score, entry.score)
    THEN << entry >> \o sorted_docs
    ELSE << Head(sorted_docs) >> \o InsertByScore(Tail(sorted_docs), entry)

RECURSIVE SortByScore(_, _)
SortByScore(entries, sorted_docs) ==
    IF entries = << >> THEN sorted_docs
    ELSE SortByScore(Tail(entries), InsertByScore(sorted_docs, Head(entries)))

\* variant: the fused list is cut to top_k
apply_rrf_fusion_TopK(text_results, vector_results, rrf_k, top_k, half_up) ==
    LET doc_map == text_results
                   \o SelectSeq(vector_results, LAMBDA h : RankOf(h.id, text_results) = 0)
        entries == [i \in DOMAIN doc_map |->
                       [hit |-> doc_map[i],
                        score |-> RrfScore(doc_map[i].id, text_results, vector_results, rrf_k)]]
        sorted_docs == Take(SortByScore(entries, << >>), top_k)
    IN [i \in DOMAIN sorted_docs |->
           [sorted_docs[i].hit EXCEPT !.score = NormalizedTenths(sorted_docs[i].score, rrf_k, half_up)]]

\* _apply_rrf_fusion: every document of either list, the text list's hit
\* object when both have it, in the order of the fused score; top_k is not
\* used
apply_rrf_fusion(text_results, vector_results, rrf_k, top_k, half_up) ==
    LET doc_map == text_results
                   \o SelectSeq(vector_results, LAMBDA h : RankOf(h.id, text_results) = 0)
        entries == [i \in DOMAIN doc_map |->
                       [hit |-> doc_map[i],
                        score |-> RrfScore(doc_map[i].id, text_results, vector_results, rrf_k)]]
        sorted_docs == SortByScore(entries, << >>)
    IN [i \in DOMAIN sorted_docs |->
           [sorted_docs[i].hit EXCEPT !.score = NormalizedTenths(sorted_docs[i].score, rrf_k, half_up)]]

\* the end of _rrf_hybrid_search: t and v are how the two searches ended
RrfFused(t, v, rrf_k, top_k, half_up) ==
    IF v.status = "raise" THEN v
    ELSE Ok(apply_rrf_fusion(t.hits, v.hits, rrf_k, top_k, half_up), v.calls)

\* _rrf_hybrid_search after the keyword search ended as t
RrfVectorStep(kw, rrf_k, engine, t) ==
    IF t.status = "raise" THEN t
    ELSE RrfFused(t, vector_search([index_name |-> kw.index_name,
                                    query_vector |-> kw.query_vector,
                                    vector_field |-> kw.vector_field,
                                    top_k |-> kw.top_k * 2, filters |-> kw.filters],
                                   engine, t.calls),
                  rrf_k, kw.top_k, engine.half_up)

rrf_hybrid_search(kw, params, engine, call_log) ==
    RrfVectorStep(kw, Get(params, "rrf_k", DEFAULT_RRF_K), engine,
                  keyword_search([index_name |-> kw.index_name, query |-> kw.query,
                                  text_fields |-> kw.text_fields,
                                  top_k |-> kw.top_k * 2, filters |-> kw.filters],
                                 engine, call_log))

\* the app revision's body: params = fusion_params or {}; the fusion method
AppHybridSearch(kw, fusion_method, params, engine, call_log) ==
    IF fusion_method = "convex"
    THEN convex_hybrid_search(kw, Get(params, "vector_weight", DEFAULT_VECTOR_WEIGHT),
                              Get(params, "text_weight", DEFAULT_TEXT_WEIGHT),
                              engine, call_log)
    ELSE IF fusion_method = "rrf"
    THEN rrf_hybrid_search(kw, params, engine, call_log)
    ELSE Raised("ValueError", call_log)

\* hybrid_search called with the keyword arguments kw.  Python binds the
\* arguments first: a keyword the function does not declare is a TypeError.
hybrid_search(rev, kw, engine, call_log) ==
    IF ~(DOMAIN kw \subseteq HybridSearchParameters(rev))
    THEN Raised("TypeError", call_log)
    ELSE IF rev = "core"
    THEN convex_hybrid_search(kw, Get(kw, "vector_weight", DEFAULT_VECTOR_WEIGHT),
                              Get(kw, "text_weight", DEFAULT_TEXT_WEIGHT), engine, call_log)
    ELSE AppHybridSearch(kw, Get(kw, "fusion_method", "convex"),
                         Get(kw, "fusion_params", << >>), engine, call_log)

----------------------------------------------------------------------------
(* Retriever.search and its five strategies.                               *)
(* w is the Retriever's wiring: [rev, embedder, query_enhancer]; embedder  *)
(* is the optional embedding model name, query_enhancer a flag.            *)

Retriever_keyword_search(cfg, w, index_name, filters, top_k, search_config, engine) ==
    LET prep == IF w.query_enhancer THEN generate_keywords(TRUE) ELSE translate_text
    IN keyword_search([index_name |-> index_name,
                       query |-> IF w.query_enhancer THEN "keywords" ELSE "translated",
                       text_fields |-> search_config.text_fields,
                       top_k |-> top_k, filters |-> filters], engine, prep)

Retriever_vector_search(cfg, w, index_name, filters, top_k, search_config, engine) ==
    IF w.embedder = Absent THEN Raised("ValueError", << >>)
    ELSE LET translate == need_translation(w.embedder[1])
             query_text == IF translate THEN "translated" ELSE "user_query"
             prep == (IF translate THEN translate_text ELSE << >>) \o embed_text(query_text)
         IN IF engine.embed_raises THEN Raised("EmbeddingError", prep)
            ELSE vector_search([index_name |-> index_name,
                                query_vector |-> << "embedding", query_text >>,
                                vector_field |-> search_config.vector_field,
                                top_k |-> top_k, filters |-> filters], engine, prep)

Retriever_hybrid_search(cfg, w, index_name, filters, top_k, search_config, engine) ==
    IF w.embedder = Absent THEN Raised("ValueError", << >>)
    ELSE LET embedded == IF need_translation(w.embedder[1]) THEN "translated" ELSE "user_query"
             prep == translate_text
                     \o (IF w.query_enhancer THEN generate_keywords(FALSE) ELSE << >>)
                     \o embed_text(embedded)
         IN IF engine.embed_raises THEN Raised("EmbeddingError", prep)
            ELSE hybrid_search(w.rev,
                    [index_name |-> index_name,
                     query |-> IF w.query_enhancer THEN "keywords" ELSE "translated",
                     query_vector |-> << "embedding", embedded >>,
                     text_fields |-> search_config.text_fields,
                     vector_field |-> search_config.vector_field,
                     top_k |-> top_k,
                     vector_weight |-> cfg.vector_weight,
                     text_weight |-> cfg.text_weight,
                     filters |-> filters], engine, prep)

Retriever_hyde_vector_search(cfg, w, index_name, filters, top_k, search_config, engine) ==
    IF w.embedder = Absent \/ ~w.query_enhancer THEN Raised("ValueError", << >>)
    ELSE LET prep == generate_hyde_document(TRUE) \o embed_text("hyde_doc")
         IN IF engine.embed_raises THEN Raised("EmbeddingError", prep)
            ELSE vector_search([index_name |-> index_name,
                                query_vector |-> << "embedding", "hyde_doc" >>,
                                vector_field |-> search_config.vector_field,
                                top_k |-> top_k, filters |-> filters], engine, prep)

Retriever_hyde_hybrid_search(cfg, w, index_name, filters, top_k, search_config, engine) ==
    IF w.embedder = Absent \/ ~w.query_enhancer THEN Raised("ValueError", << >>)
    ELSE LET prep == translate_text \o generate_hyde_document(FALSE) \o embed_text("hyde_doc")
         IN IF engine.embed_raises THEN Raised("EmbeddingError", prep)
            ELSE hybrid_search(w.rev,
                    [index_name |-> index_name,
                     query |-> "keywords",
                     query_vector |-> << "embedding", "hyde_doc" >>,
                     text_fields |-> search_config.text_fields,
                     vector_field |-> search_config.vector_field,
                     top_k |-> top_k,
                     vector_weight |-> cfg.vector_weight,
                     text_weight |-> cfg.text_weight,
                     filters |-> filters], engine, prep \o generate_keywords(FALSE))

\* The branch on search_method (the body of the try).
SearchDispatch(cfg, w, index_name, search_method, top_k, user_filter, search_config, engine) ==
    LET filters == create_filters(user_filter)
    IN CASE search_method = "keyword" ->
              Retriever_keyword_search(cfg, w, index_name, filters, top_k, search_config, engine)
         [] search_method = "vector" ->
              Retriever_vector_search(cfg, w, index_name, filters, top_k, search_config, engine)
         [] search_method = "hybrid" ->
              Retriever_hybrid_search(cfg, w, index_name, filters, top_k, search_config, engine)
         [] search_method = "hyde" ->
              Retriever_hyde_vector_search(cfg, w, index_name, filters, top_k, search_config, engine)
         [] search_method = "hyde_hybrid" ->
              Retriever_hyde_hybrid_search(cfg, w, index_name, filters, top_k, search_config, engine)
         [] OTHER -> Raised("ValueError", << >>)

\* Retriever.search(user_query, user_filter, **kwargs).  The call
\* auto_configure_for_index(index_name, search_method, **kwargs) passes
\* index_name and search_method positionally and again by keyword when
\* kwargs carries them: Python raises TypeError (multiple values).
search(cfg, w, user_filter, kwargs, engine) ==
    LET index_name == Get(kwargs, "index_name", cfg.index_name)
        search_method == Get(kwargs, "search_method", cfg.search_method)
        top_k == Get(kwargs, "top_k", cfg.top_k)
    IN IF {"index_name", "search_method"} \cap DOMAIN kwargs # {}
       THEN Raised("TypeError", << >>)
       ELSE LET ac == auto_configure_for_index(index_name, search_method, kwargs)
            IN IF ac.status = "raise"
               THEN Raised(ac.exc, << >>)
               ELSE SearchDispatch(cfg, w, index_name, search_method, top_k,
                                   user_filter, ac.config, engine)

----------------------------------------------------------------------------
(* ContextBuilder, Generator and RAGPipeline.                              *)
(* env is what the outside world does during one pipeline call:            *)
(*   engine    the ranked search's answer and failures                     *)
(*   failing   the expansion lookups that fail                             *)
(*   textless  ids of documents indexed without any text                   *)
(*   escapes   the stage call, if any, that lets an exception out          *)
(*   gen       generate_multimodal: [answer, raises]                       *)
(*   stream    generate_multimodal_stream: [chunks, raises]                *)

\* "검색 결과를 찾을 수 없습니다."
NO_RESULTS_ANSWER == Chars("n", 17)

\* f"처리 중 오류가 발생했습니다: {str(e)}"; str(e) is kept as one character
ErrorAnswer(exc) == Chars("e", 17) \o << exc >>

\* "죄송합니다. 답변 생성 중 오류가 발생했습니다."
APOLOGY == Chars("s", 26)

Stage(name, arg) == [stage |-> name, arg |-> arg]

\* ContextBuilder.build_context with context_type "text": one part per hit
\* that has text, labelled [Document index+1]
build_context(hits, textless) ==
    IF hits = << >> THEN << >>
    ELSE SelectSeq([i \in DOMAIN hits |-> [kind |-> "text", document |-> i, id |-> hits[i].id]],
                   LAMBDA part : part.id \notin textless)

\* Generator.generate_answer: the adapter's answer stripped, or the apology
generate_answer(context_parts, gen) ==
    [answer |-> IF gen.raises THEN APOLOGY ELSE strip(gen.answer),
     calls |-> << Call("generation", "generate_multimodal", [parts |-> context_parts]) >>]

\* The generation adapter's streaming call: the chunks it yields and whether
\* it raises after the last of them.
generate_multimodal_stream(parts, stream) ==
    [chunks |-> stream.chunks, raises |-> stream.raises]

\* variant: the adapter's failure ends the stream without the apology chunk
generate_answer_stream_NoApology(context_parts, stream) ==
    LET g == generate_multimodal_stream(context_parts, stream)
    IN [chunks |-> g.chunks,
        calls |-> << Call("generation", "generate_multimodal_stream",
                          [parts |-> context_parts]) >>]

\* Generator.generate_answer_stream, drained: the adapter's chunks, then the
\* apology chunk if the adapter raised
generate_answer_stream(context_parts, stream) ==
    LET g == generate_multimodal_stream(context_parts, stream)
    IN [chunks |-> g.chunks \o (IF g.raises THEN << APOLOGY >> ELSE << >>),
        calls |-> << Call("generation", "generate_multimodal_stream",
                          [parts |-> context_parts]) >>]

\* The results of the stages are threaded through operators, one per step.
\* status is "raise" (with exc), "empty" or "ok".
StagesResult(status, exc, hits, total_hits, parts, stages, call_log, lookups) ==
    [status |-> status, exc |-> exc, hits |-> hits, total_hits |-> total_hits,
     context_parts |-> parts, stages |-> stages, calls |-> call_log, lookups |-> lookups]

\* step 3: context_parts = build_context(total_hits); x is what step 2 left
ContextStage(env, s, x, stages) ==
    IF env.escapes = "build_context"
    THEN StagesResult("raise", "StageError", << >>, << >>, << >>,
                      Append(stages, Stage("build_context", x.total_hits)), s.calls, x.lookups)
    ELSE StagesResult("ok", "", s.hits, x.total_hits,
                      build_context(x.total_hits, env.textless),
                      Append(stages, Stage("build_context", x.total_hits)), s.calls, x.lookups)

\* variant: expansion by one page whatever config.tolerance says
ExpansionStage_Always(cfg, env, s, stages) ==
    ContextStage(env, s, expand_results(cfg, s.hits, Given(1), env.failing),
                 Append(stages, Stage("expand_results", s.hits)))

\* step 2: total_hits = hits; if config.tolerance > 0: expand_results(hits)
ExpansionStage(cfg, env, s, stages) ==
    IF cfg.tolerance > 0
    THEN IF env.escapes = "expand_results"
         THEN StagesResult("raise", "StageError", << >>, << >>, << >>,
                           Append(stages, Stage("expand_results", s.hits)), s.calls, << >>)
         ELSE ContextStage(env, s, expand_results(cfg, s.hits, Absent, env.failing),
                           Append(stages, Stage("expand_results", s.hits)))
    ELSE ContextStage(env, s, [expanded_hits |-> << >>, total_hits |-> s.hits, lookups |-> << >>],
                      stages)

\* variant: without the `if not hits` test
AfterSearch_NoEmptyTest(cfg, env, s, stages) ==
    IF s.status = "raise"
    THEN StagesResult("raise", s.exc, << >>, << >>, << >>, stages, s.calls, << >>)
    ELSE ExpansionStage(cfg, env, s, stages)

\* after step 1: s is what retriever.search did; `if not hits` ends the run
AfterSearch(cfg, env, s, stages) ==
    IF s.status = "raise"
    THEN StagesResult("raise", s.exc, << >>, << >>, << >>, stages, s.calls, << >>)
    ELSE IF s.hits = << >>
    THEN StagesResult("empty", "", << >>, << >>, << >>, stages, s.calls, << >>)
    ELSE ExpansionStage(cfg, env, s, stages)

\* Steps 1-3 of run and of run_stream (the two bodies are the same text):
\* search, the empty test, expansion when config.tolerance > 0, context.
PipelineStages(cfg, w, user_filter, env) ==
    AfterSearch(cfg, env, search(cfg, w, user_filter, << >>, env.engine),
                << Stage("search", user_filter) >>)

\* what run hands back: (answer, total_hits, hits), or an exception
RunResult(status, exc, answer, total_hits, hits, stages, call_log, lookups) ==
    [status |-> status, exc |-> exc, answer |-> answer, total_hits |-> total_hits,
     hits |-> hits, stages |-> stages, calls |-> call_log, lookups |-> lookups]

\* step 4 of run and its return; g is what generate_answer did
Answered(p, g) ==
    RunResult("return", "", g.answer, p.total_hits, p.hits,
              Append(p.stages, Stage("generate_answer", p.context_parts)),
              p.calls \o g.calls, p.lookups)

\* run after steps 1-3 left p
GenerationStage(env, p) ==
    IF p.status = "raise"
    THEN RunResult("raise", p.exc, << >>, << >>, << >>, p.stages, p.calls, p.lookups)
    ELSE IF p.status = "empty"
    THEN RunResult("return", "", NO_RESULTS_ANSWER, << >>, << >>, p.stages, p.calls, p.lookups)
    ELSE IF env.escapes = "generate_answer"
    THEN RunResult("raise", "StageError", << >>, << >>, << >>,
                   Append(p.stages, Stage("generate_answer", p.context_parts)),
                   p.calls, p.lookups)
    ELSE Answered(p, generate_answer(p.context_parts, env.gen))

\* the body of run's try
RunTry(cfg, w, user_filter, env) ==
    GenerationStage(env, PipelineStages(cfg, w, user_filter, env))

\* variant: without the handler
RunExcept_Reraises(r) == r

\* run's `except Exception`: r is how the try ended
RunExcept(r) ==
    IF r.status = "raise"
    THEN RunResult("return", "", ErrorAnswer(r.exc), << >>, << >>, r.stages, r.calls, r.lookups)
    ELSE r

\* RAGPipeline.run
run(cfg, w, user_filter, env) == RunExcept(RunTry(cfg, w, user_filter, env))

\* A generator object run_stream returns: which generator function made it
\* and, for the two one-chunk generators, the chunk; answer_generator holds
\* the context parts and calls the generation adapter when first pulled.
Generator(fn, chunks, context_parts) ==
    [fn |-> fn, chunks |-> chunks, context_parts |-> context_parts]

\* what run_stream hands back: (answer_stream, total_hits, hits)
StreamResult(status, exc, answer_stream, total_hits, hits, stages, call_log, lookups) ==
    [status |-> status, exc |-> exc, answer_stream |-> answer_stream,
     total_hits |-> total_hits, hits |-> hits, stages |-> stages,
     calls |-> call_log, lookups |-> lookups]

\* run_stream after steps 1-3 left p
StreamStage(p) ==
    IF p.status = "raise"
    THEN StreamResult("raise", p.exc, Generator("none", << >>, << >>),
                      << >>, << >>, p.stages, p.calls, p.lookups)
    ELSE IF p.status = "empty"
    THEN StreamResult("return", "",
                      Generator("empty_generator", << NO_RESULTS_ANSWER >>, << >>),
                      << >>, << >>, p.stages, p.calls, p.lookups)
    ELSE StreamResult("return", "",
                      Generator("answer_generator", << >>, p.context_parts),
                      p.total_hits, p.hits, p.stages, p.calls, p.lookups)

\* the body of run_stream's try
RunStreamTry(cfg, w, user_filter, env) ==
    StreamStage(PipelineStages(cfg, w, user_filter, env))

\* run_stream's `except Exception`: r is how the try ended
RunStreamExcept(r) ==
    IF r.status = "raise"
    THEN StreamResult("return", "",
                      Generator("error_generator", << ErrorAnswer(r.exc) >>, << >>),
                      << >>, << >>, r.stages, r.calls, r.lookups)
    ELSE r

\* RAGPipeline.run_stream
run_stream(cfg, w, user_filter, env) ==
    RunStreamExcept(RunStreamTry(cfg, w, user_filter, env))

\* a generator drained: every chunk it yields and the adapter calls it makes
Drain(g, stream) ==
    IF g.fn = "answer_generator"
    THEN generate_answer_stream(g.context_parts, stream)
    ELSE [chunks |-> g.chunks, calls |-> << >>]

\* RAGPipeline.search_only
search_only(cfg, w, user_filter, engine) == search(cfg, w, user_filter, << >>, engine)

----------------------------------------------------------------------------
(* Configurations and wirings the checks draw from.                        *)

MAPPED_INDEX == "hdegis-text-multilingual-embedding-002"
UNMAPPED_INDEX == "hdegis-unmapped"

SearchMethods == {"keyword", "vector", "hybrid", "hyde", "hyde_hybrid"}

\* (vector_weight, text_weight): the SearchConfig defaults 0.3/0.7 and the
\* custom configuration's 0.4/0.6
Weights == { << DEFAULT_VECTOR_WEIGHT, DEFAULT_TEXT_WEIGHT >>, << 4, 6 >> }

SearchConfig(index_name, search_method, top_k, tolerance, wt) ==
    [index_name |-> index_name, search_method |-> search_method, top_k |-> top_k,
     tolerance |-> tolerance, vector_weight |-> wt[1], text_weight |-> wt[2]]

SearchConfigs ==
    { SearchConfig(i, m, k, t, wt) :
        i \in {MAPPED_INDEX, UNMAPPED_INDEX}, m \in SearchMethods \cup {"bm25"},
        k \in 1..MaxHits, t \in 0..MaxTol, wt \in Weights }

Wirings ==
    [rev : {"app", "core"},
     embedder : {Absent, Given("text-multilingual-embedding-002"), Given("text-embedding-004")},
     query_enhancer : BOOLEAN]

\* The Retriever RAGPipelineFactory.create_pipeline builds for a config: the
\* "app" search adapter, a query enhancer, and an embedder for the index's
\* model when the method needs vectors.
FactoryWiring(cfg) ==
    [rev |-> "app",
     embedder |-> IF cfg.search_method \in {"vector", "hybrid", "hyde", "hyde_hybrid"}
                  THEN get_embedding_model_for_index(cfg.index_name)
                  ELSE Absent,
     query_enhancer |-> TRUE]

Idle == [status |-> "idle"]

\* a call that returned the value v
Returns(v) == [status |-> "return", value |-> v]
Pending == [status |-> "pending"]

ChatIdle ==
    /\ cpc = "idle"
    /\ request = Idle
    /\ search_results_task = Idle
    /\ stream_task = Idle
    /\ stream_generator = Idle
    /\ chunk_buffer = << >>
    /\ full_answer = << >>
    /\ events = << >>
    /\ frames = << >>
    /\ calls = << >>

\* no concurrent requests are in the picture
NoThreads ==
    /\ threads = << >>
    /\ shared = Idle

----------------------------------------------------------------------------
(* SpecExpand: Retriever.expand_results applied to bounded inputs.         *)

InitExpand ==
    /\ config \in { c \in SearchConfigs :
                      /\ c.index_name = MAPPED_INDEX /\ c.search_method = "keyword"
                      /\ c.top_k = MaxHits /\ c.vector_weight = DEFAULT_VECTOR_WEIGHT }
    /\ wiring = FactoryWiring(config)
    /\ op \in [name : {"expand_results"},
               hits : HitLists(MaxHits),
               tolerance : {Absent} \cup { Given(t) : t \in 0..MaxTol },
               failing : FailSets]
            \cup [name : {"expand_search_results"},
                  hits : HitLists(MaxHits),
                  tolerance : { Given(t) : t \in 0..MaxTol },
                  failing : FailSets]
    /\ ret = Pending
    /\ ChatIdle
    /\ NoThreads

\* Retriever.expand_results(hits, tolerance)
ExpandResultsCall ==
    /\ op.name = "expand_results"
    /\ ret = Pending
    /\ ret' = expand_results(config, op.hits, op.tolerance, op.failing)
    /\ UNCHANGED << procVars, config, wiring, op, chatVars >>

\* searcher.expand_search_results(index_name, hits, tolerance)
ExpandSearchResultsCall ==
    /\ op.name = "expand_search_results"
    /\ ret = Pending
    /\ ret' = expand_search_results(config.index_name, op.hits, op.tolerance[1], op.failing)
    /\ UNCHANGED << procVars, config, wiring, op, chatVars >>

NextExpand == ExpandResultsCall \/ ExpandSearchResultsCall

SpecExpand == InitExpand /\ [][NextExpand]_vars

----------------------------------------------------------------------------
(* SpecSearch: Retriever.search applied to bounded inputs.                 *)

\* per-call overrides: any subset of these three
Overrides == [index_name |-> "hdegis-text-embedding-004", search_method |-> "keyword", top_k |-> 1]

KwargSets == { [k \in S |-> Overrides[k]] : S \in SUBSET DOMAIN Overrides }

\* "1. Standards/IEC & 3. Specs/REE" in short
SampleFilter == << "S", "/", "I", " ", "&", " ", "P", "/", "R" >>

\* the engine finds nothing, or pages 0..MaxHits-1 of A.pdf in page order
SearchEngines ==
    { e \in Engines(MaxHits) :
        /\ ~(e.raises /\ e.embed_raises)
        /\ \/ e.hits = << >>
           \/ /\ Len(e.hits) = MaxHits
              /\ \A i \in DOMAIN e.hits : e.hits[i].id = 99 + i }

\* keyword arguments of a direct hybrid_search call: the seven common ones
\* and any of fusion_method, fusion_params
HybridBase ==
    [index_name |-> MAPPED_INDEX, query |-> "keywords",
     query_vector |-> << "embedding", "user_query" >>,
     text_fields |-> DEFAULT_FIELDS.text_fields, vector_field |-> DEFAULT_FIELDS.vector_field,
     top_k |-> 1, filters |-> << >>]

FusionChoices ==
    { << >> } \cup [fusion_method : {"convex", "rrf", "max"}]
    \cup [fusion_method : {"convex", "rrf"},
          fusion_params : { [rrf_k |-> 1], [vector_weight |-> 4, text_weight |-> 6] }]

WithKeywords(base, extra) ==
    [k \in DOMAIN base \cup DOMAIN extra |-> IF k \in DOMAIN extra THEN extra[k] ELSE base[k]]

\* text and vector rankings of up to MaxHits documents each, out of four
FusionEngines ==
    { [raises |-> FALSE, embed_raises |-> FALSE, hits |-> t, vector_hits |-> v,
       half_up |-> HALF_EVEN] :
        t, v \in { h \in HitLists(MaxHits) :
                     \A i \in DOMAIN h : h[i].id \in {100, 101, 102, 300} } }

InitSearch ==
    /\ config \in { c \in SearchConfigs : c.tolerance = 0 }
    /\ wiring \in Wirings
    /\ \/ op \in [name : {"search"}, user_filter : {<< >>, SampleFilter},
                  kwargs : KwargSets, engine : SearchEngines]
       \/ /\ config.search_method = "hybrid" /\ config.index_name = MAPPED_INDEX
          /\ wiring.embedder = Absent /\ wiring.query_enhancer
          /\ op \in [name : {"hybrid_search"},
                     kw : { WithKeywords(HybridBase, f) : f \in FusionChoices },
                     engine : FusionEngines]
    /\ ret = Pending
    /\ ChatIdle
    /\ NoThreads

\* Retriever.search(user_query, user_filter, **kwargs)
SearchCall ==
    /\ op.name = "search"
    /\ ret = Pending
    /\ ret' = search(config, wiring, op.user_filter, op.kwargs, op.engine)
    /\ UNCHANGED << procVars, config, wiring, op, chatVars >>

\* ElasticSearcher.hybrid_search(**kw), called on the adapter itself
HybridSearchCall ==
    /\ op.name = "hybrid_search"
    /\ ret = Pending
    /\ ret' = hybrid_search(wiring.rev, op.kw, op.engine, << >>)
    /\ UNCHANGED << procVars, config, wiring, op, chatVars >>

NextSearch == SearchCall \/ HybridSearchCall

SpecSearch == InitSearch /\ [][NextSearch]_vars

----------------------------------------------------------------------------
(* RAGPipelineFactory.create_pipeline (SpecFactory).                       *)

\* search methods for which the factory builds an embedder
VectorMethods == {"vector", "hybrid", "hyde", "hyde_hybrid"}

ContextTypes == {"text", "image", "both"}

StorageTypes == {"minio", "gcs", "s3"}

PipelineConfig(search_config, context_type, storage_type) ==
    [search |-> search_config, context |-> [context_type |-> context_type],
     storage |-> [storage_type |-> storage_type]]

\* how create_pipeline ended, and the components constructed up to then, in
\* construction order
Built(status, exc, constructed) ==
    [status |-> status, exc |-> exc, constructed |-> constructed]

\* 5-6: Retriever, ContextBuilder, Generator and RAGPipeline are assembled
AssemblePipeline(constructed) ==
    Built("return", "",
          constructed \o << "Retriever", "ContextBuilder", "Generator", "RAGPipeline" >>)

\* StorageFactory.create_storage
create_storage(storage_type, constructed) ==
    IF storage_type = "minio" THEN AssemblePipeline(Append(constructed, "MinIOStorage"))
    ELSE IF storage_type = "gcs" THEN AssemblePipeline(Append(constructed, "GCSStorage"))
    ELSE Built("raise", "ValueError", constructed)

\* 4: a storage adapter when the context uses images
StorageStep(pipeline_config, constructed) ==
    IF pipeline_config.context.context_type \in {"image", "both"}
    THEN create_storage(pipeline_config.storage.storage_type, constructed)
    ELSE AssemblePipeline(constructed)

\* 3: an embedder for the index's model when the method needs vectors; an
\* index the registry does not know is a ValueError
EmbedderStep(pipeline_config, constructed) ==
    IF pipeline_config.search.search_method \in VectorMethods
    THEN IF get_embedding_model_for_index(pipeline_config.search.index_name) # Absent
         THEN StorageStep(pipeline_config, Append(constructed, "GoogleEmbedder"))
         ELSE Built("raise", "ValueError", constructed)
    ELSE StorageStep(pipeline_config, constructed)

\* RAGPipelineFactory.create_pipeline(config): 1-2 construct the search
\* adapter (whose constructor pings the engine), the generation adapter, the
\* input processor and the query enhancer, before the embedder is decided
create_pipeline(pipeline_config, ping) ==
    IF ~ping THEN Built("raise", "ConnectionError", << >>)
    ELSE EmbedderStep(pipeline_config,
                      << "ElasticSearcher", "GeminiGenerator", "InputProcessor", "QueryEnhancer" >>)

PipelineConfigs ==
    { PipelineConfig(c, ct, st) :
        c \in { x \in SearchConfigs : /\ x.top_k = MaxHits /\ x.tolerance = 0
                                      /\ x.vector_weight = DEFAULT_VECTOR_WEIGHT },
        ct \in ContextTypes, st \in StorageTypes }

InitFactory ==
    /\ op \in [name : {"create_pipeline"}, config : PipelineConfigs, ping : BOOLEAN]
    /\ config = op.config.search
    /\ wiring = FactoryWiring(config)
    /\ ret = Pending
    /\ ChatIdle
    /\ NoThreads

\* RAGPipelineFactory.create_pipeline(config)
CreatePipelineCall ==
    /\ op.name = "create_pipeline"
    /\ ret = Pending
    /\ ret' = create_pipeline(op.config, op.ping)
    /\ UNCHANGED << procVars, config, wiring, op, chatVars >>

NextFactory == CreatePipelineCall

SpecFactory == InitFactory /\ [][NextFactory]_vars

----------------------------------------------------------------------------
(* ChatService: the streaming chat call.                                   *)
(* One request is open at a time.  The coroutine generate_streaming_-      *)
(* response runs on the event loop (cpc is its position); the two          *)
(* functions it hands to run_in_executor run on worker threads and         *)
(* interleave freely with it.  event_stream of the route turns every       *)
(* event into an SSE frame as it is yielded.                               *)

\* f"답변 생성 중 오류가 발생했습니다: {str(e)}"
StreamingErrorAnswer(exc) == Chars("g", 20) \o << exc >>

RECURSIVE JoinFilters(_)
\* " & ".join(filters) if filters else ""
JoinFilters(filters) ==
    IF filters = << >> THEN << >>
    ELSE IF Len(filters) = 1 THEN filters[1]
    ELSE filters[1] \o << " ", "&", " " >> \o JoinFilters(Tail(filters))

\* the fields SearchResult requires, and those _format_search_results passes
SearchResultRequired == {"fileName", "filePath", "pageNumber", "score", "preview"}
SearchResultPassed == {"fileName", "filePath", "pageNumber", "score"}

\* ChatService._format_search_results: a hit whose SearchResult fails
\* validation (a required field missing, score outside [0, 1]) is skipped
format_search_results(hits) ==
    LET result(hit) ==
            LET file_path == IF hit.gcs_pdf_path = "" THEN "public/sample.pdf"
                             ELSE hit.gcs_pdf_path
            IN [fileName |-> IF file_path = "public/sample.pdf" THEN "sample.pdf" ELSE file_path,
                filePath |-> file_path,
                pageNumber |-> ParseInt(hit.page_number),
                score |-> hit.score,
                valid |-> /\ SearchResultRequired \subseteq SearchResultPassed
                          /\ hit.score >= 0 /\ hit.score <= 1]
    IN SelectSeq([i \in DOMAIN hits |-> result(hits[i])], LAMBDA r : r.valid)

\* variant: a failed search is reported in the result list
FormattedOrEmpty_ReportsFailure(s) ==
    [result |-> IF s.status = "raise" THEN << s.exc >> ELSE format_search_results(s.hits),
     calls |-> s.calls]

\* what a ChatService call hands to its route: the answer, the SearchResult
\* list and the hits _format_search_results was called on
Responded(answer, formatted_hits, call_log) ==
    [status |-> "return", exc |-> "", answer |-> answer, formatted_hits |-> formatted_hits,
     searchResults |-> format_search_results(formatted_hits), calls |-> call_log]

\* variant: the list is built from total_hits
AfterRun_FromTotalHits(r) == Responded(r.answer, r.total_hits, r.calls)

\* lines 94-95: answer, total_hits, original_hits = result; r is what run did
AfterRun(r) == Responded(r.answer, r.hits, r.calls)

\* ChatService.generate_response: run never raises
generate_response(cfg, w, filters, env) == AfterRun(run(cfg, w, JoinFilters(filters), env))

\* lines 59-70 of get_search_results: s is how search_only ended; a failure
\* is logged and raised again
AfterSearchOnly(s) ==
    IF s.status = "raise"
    THEN [status |-> "raise", exc |-> s.exc, answer |-> << >>, formatted_hits |-> << >>,
          searchResults |-> << >>, calls |-> s.calls]
    ELSE Responded(<< >>, s.hits, s.calls)

\* ChatService.get_search_results
get_search_results(cfg, w, filters, engine) ==
    AfterSearchOnly(search_only(cfg, w, JoinFilters(filters), engine))

\* get_search_results_sync's try and except: s is how search_only ended
FormattedOrEmpty(s) ==
    [result |-> IF s.status = "raise" THEN << >> ELSE format_search_results(s.hits),
     calls |-> s.calls]

\* ChatService.get_search_results_sync: any failure becomes []
get_search_results_sync(cfg, w, filters, engine) ==
    FormattedOrEmpty(search_only(cfg, w, JoinFilters(filters), engine))

\* get_streaming_generator's try and except: r is how run_stream ended
StreamOrMessage(r) ==
    [result |-> IF r.status = "raise"
                THEN Generator("empty_generator", << StreamingErrorAnswer(r.exc) >>, << >>)
                ELSE r.answer_stream,
     calls |-> r.calls]

\* ChatService.get_streaming_generator: the answer stream of run_stream, or
\* a one-chunk generator if run_stream raised
get_streaming_generator(cfg, w, filter_str, env) ==
    StreamOrMessage(run_stream(cfg, w, filter_str, env))

StreamEvent(type, key, value) == [type |-> type, key |-> key, value |-> value]

\* event_stream: f"data: {json.dumps(event.model_dump())}\n\n"
Frame(event) == [prefix |-> "data: ", json |-> event, suffix |-> "\n\n"]

\* the coroutine yields an event and the route writes its frame
Yield(event) ==
    /\ events' = Append(events, event)
    /\ frames' = Append(frames, Frame(event))

OnThread(thread, call_log) == [i \in DOMAIN call_log |-> [thread |-> thread, call |-> call_log[i]]]

\* a worker thread finishes its function: the future holds what it returned
\* and the adapter calls it made are on the worker's account
WorkerDone(future, r) ==
    /\ future = [status |-> "done", result |-> r.result]
    /\ calls' = calls \o OnThread("worker", r.calls)

\* requests the model serves
ChatFilters == { << >>, << << "S", "/", "I" >>, << "P", "/", "R" >> >> }

ChatTexts == { << >>, << "b", "c", "d", "e" >> }

ChatEnvs ==
    [engine : SearchEngines, failing : { {} }, textless : { {} }, escapes : {"none"},
     gen : { [answer |-> << >>, raises |-> FALSE] },
     stream : [chunks : SeqsUpTo(ChatTexts, MaxChunks), raises : BOOLEAN]]

\* the index as the search-results task may find it when it was written to
\* between the two searches of a call: another document ranks first
ChangedEngines ==
    { e \in Engines(MaxHits) :
        /\ ~e.raises /\ ~e.embed_raises
        /\ e.hits = Ranked(<< Doc(300, "B.pdf", FormatPage(0)) >>) }

\* fault: the run_in_executor call that raises RuntimeError (the executor
\* has been shut down), if any
Requests ==
    [status : {"open"}, filters : ChatFilters, env : ChatEnvs,
     results_engine : { e \in SearchEngines \cup ChangedEngines : ~e.embed_raises },
     fault : {"none"}]
    \cup [status : {"open"}, filters : { << >> },
          env : { e \in ChatEnvs : e.stream.chunks = << >> /\ ~e.engine.embed_raises },
          results_engine : { e \in SearchEngines : ~e.embed_raises /\ ~e.raises },
          fault : {"submit_search", "submit_stream"}]

\* lines 118-144 without a failure: both functions are submitted and the
\* coroutine awaits stream_task
SubmitTasks ==
    /\ cpc = "idle"
    /\ \E r \in Requests : r.fault = "none" /\ request' = r
    /\ search_results_task' = Pending
    /\ stream_task' = Pending
    /\ cpc' = "await_stream"
    /\ UNCHANGED << procVars, config, wiring, opVars, stream_generator, chunk_buffer,
                    full_answer, events, frames, calls >>

\* variant: the handler's error event is followed by a second one
SubmitFails_ErrorTwice ==
    /\ cpc = "idle"
    /\ \E r \in Requests : r.fault # "none" /\ request' = r
    /\ search_results_task' = IF request'.fault = "submit_stream" THEN Pending ELSE Idle
    /\ events' = events \o << StreamEvent("error", "error", "RuntimeError"),
                              StreamEvent("error", "error", "RuntimeError") >>
    /\ frames' = frames \o << Frame(StreamEvent("error", "error", "RuntimeError")),
                              Frame(StreamEvent("error", "error", "RuntimeError")) >>
    /\ cpc' = "done"
    /\ UNCHANGED << procVars, config, wiring, opVars, stream_task, stream_generator,
                    chunk_buffer, full_answer, calls >>

\* variant: the handler yields the error event and the stream goes on
SubmitFails_KeepsStreaming ==
    /\ cpc = "idle"
    /\ \E r \in Requests : r.fault # "none" /\ request' = r
    /\ search_results_task' = IF request'.fault = "submit_stream" THEN Pending ELSE Idle
    /\ Yield(StreamEvent("error", "error", "RuntimeError"))
    /\ cpc' = "await_search"
    /\ UNCHANGED << procVars, config, wiring, opVars, stream_task, stream_generator,
                    chunk_buffer, full_answer, calls >>

\* lines 118-141 when a run_in_executor call raises: the handler at 189-194
\* yields one error event and the coroutine ends
SubmitFails ==
    /\ cpc = "idle"
    /\ \E r \in Requests : r.fault # "none" /\ request' = r
    /\ search_results_task' = IF request'.fault = "submit_stream" THEN Pending ELSE Idle
    /\ Yield(StreamEvent("error", "error", "RuntimeError"))
    /\ cpc' = "done"
    /\ UNCHANGED << procVars, config, wiring, opVars, stream_task, stream_generator,
                    chunk_buffer, full_answer, calls >>

\* variant: the search-results task answers [] without searching
SearchResultsWorker_SkipsSearch ==
    /\ search_results_task = Pending
    /\ WorkerDone(search_results_task', [result |-> << >>, calls |-> << >>])
    /\ UNCHANGED << procVars, config, wiring, opVars, cpc, request, stream_task, stream_generator,
                    chunk_buffer, full_answer, events, frames >>

\* worker thread: get_search_results_sync(query, filters)
SearchResultsWorker ==
    /\ search_results_task = Pending
    /\ WorkerDone(search_results_task',
                  get_search_results_sync(config, wiring, request.filters, request.results_engine))
    /\ UNCHANGED << procVars, config, wiring, opVars, cpc, request, stream_task, stream_generator,
                    chunk_buffer, full_answer, events, frames >>

\* worker thread: get_streaming_generator(query, filter_str)
StreamWorker ==
    /\ stream_task = Pending
    /\ WorkerDone(stream_task',
                  get_streaming_generator(config, wiring, JoinFilters(request.filters), request.env))
    /\ UNCHANGED << procVars, config, wiring, opVars, cpc, request, search_results_task,
                    stream_generator, chunk_buffer, full_answer, events, frames >>

\* stream_generator = await stream_task; full_answer = ""; chunk_buffer = ""
AwaitStream ==
    /\ cpc = "await_stream"
    /\ stream_task.status = "done"
    /\ stream_generator' = [status |-> "created", generator |-> stream_task.result,
                            rest |-> << >>]
    /\ full_answer' = << >>
    /\ chunk_buffer' = << >>
    /\ cpc' = "drain"
    /\ UNCHANGED << procVars, config, wiring, opVars, request, search_results_task, stream_task,
                    events, frames, calls >>

\* first next() on answer_generator: its body starts on the event loop and
\* calls the generation adapter's streaming call
StartGenerator ==
    /\ cpc = "drain"
    /\ stream_generator.status = "created"
    /\ LET d == Drain(stream_generator.generator, request.env.stream)
       IN /\ stream_generator' = [stream_generator EXCEPT !.status = "running", !.rest = d.chunks]
          /\ calls' = calls \o OnThread("loop", d.calls)
    /\ UNCHANGED << procVars, config, wiring, opVars, cpc, request, search_results_task, stream_task,
                    chunk_buffer, full_answer, events, frames >>

\* for chunk in stream_generator: if chunk: full_answer += chunk; chunk_buffer += chunk
PullChunk ==
    /\ cpc = "drain"
    /\ stream_generator.status = "running"
    /\ stream_generator.rest # << >>
    /\ LET chunk == Head(stream_generator.rest)
       IN /\ stream_generator' = [stream_generator EXCEPT !.rest = Tail(@)]
          /\ IF chunk # << >>
             THEN /\ full_answer' = full_answer \o chunk
                  /\ chunk_buffer' = chunk_buffer \o chunk
                  /\ cpc' = "emit"
             ELSE UNCHANGED << full_answer, chunk_buffer, cpc >>
    /\ UNCHANGED << procVars, config, wiring, opVars, request, search_results_task, stream_task,
                    events, frames, calls >>

\* variant: the buffer is sent whole
EmitChunk_WholeBuffer ==
    /\ cpc = "emit"
    /\ Yield(StreamEvent("response_chunk", "chunk", chunk_buffer))
    /\ chunk_buffer' = << >>
    /\ cpc' = "typing"
    /\ UNCHANGED << procVars, config, wiring, opVars, request, search_results_task, stream_task,
                    stream_generator, full_answer, calls >>

\* one turn of `while len(chunk_buffer) > 0`: yield the next 1-3 characters
EmitChunk ==
    /\ cpc = "emit"
    /\ LET send_length == Min(Len(chunk_buffer), 3)
       IN /\ Yield(StreamEvent("response_chunk", "chunk", Take(chunk_buffer, send_length)))
          /\ chunk_buffer' = Drop(chunk_buffer, send_length)
    /\ cpc' = "typing"
    /\ UNCHANGED << procVars, config, wiring, opVars, request, search_results_task, stream_task,
                    stream_generator, full_answer, calls >>

\* await asyncio.sleep(0.02 + len(send_chunk) * 0.01), then the while test
TypingDelay ==
    /\ cpc = "typing"
    /\ cpc' = IF Len(chunk_buffer) > 0 THEN "emit" ELSE "drain"
    /\ UNCHANGED << procVars, config, wiring, opVars, request, search_results_task, stream_task,
                    stream_generator, chunk_buffer, full_answer, events, frames, calls >>

\* the generator is exhausted: yield response_completed
ResponseCompleted ==
    /\ cpc = "drain"
    /\ stream_generator.status = "running"
    /\ stream_generator.rest = << >>
    /\ stream_generator' = [stream_generator EXCEPT !.status = "exhausted"]
    /\ Yield(StreamEvent("response_completed", "", << >>))
    /\ cpc' = "pause"
    /\ UNCHANGED << procVars, config, wiring, opVars, request, search_results_task, stream_task,
                    chunk_buffer, full_answer, calls >>

\* variant: the search_results event is left out
Pause_SkipsSearchResults ==
    /\ cpc = "pause"
    /\ cpc' = "completing"
    /\ UNCHANGED << procVars, config, wiring, opVars, request, search_results_task, stream_task,
                    stream_generator, chunk_buffer, full_answer, events, frames, calls >>

\* await asyncio.sleep(1.0)
Pause ==
    /\ cpc = "pause"
    /\ cpc' = "await_search"
    /\ UNCHANGED << procVars, config, wiring, opVars, request, search_results_task, stream_task,
                    stream_generator, chunk_buffer, full_answer, events, frames, calls >>

\* variant: the coroutine is never resumed from the await
SendSearchResults_NeverResumes ==
    /\ cpc = "await_search"
    /\ FALSE
    /\ UNCHANGED vars

\* search_results = await search_results_task; yield search_results
SendSearchResults ==
    /\ cpc = "await_search"
    /\ search_results_task.status = "done"
    /\ Yield(StreamEvent("search_results", "searchResults", search_results_task.result))
    /\ cpc' = "completing"
    /\ UNCHANGED << procVars, config, wiring, opVars, request, search_results_task, stream_task,
                    stream_generator, chunk_buffer, full_answer, calls >>

\* yield completed; the coroutine ends
Completed ==
    /\ cpc = "completing"
    /\ Yield(StreamEvent("completed", "", << >>))
    /\ cpc' = "done"
    /\ UNCHANGED << procVars, config, wiring, opVars, request, search_results_task, stream_task,
                    stream_generator, chunk_buffer, full_answer, calls >>

\* The service is built by get_chat_service from a pipeline configuration;
\* the factory wires the Retriever.
ChatConfigs ==
    { c \in SearchConfigs :
        /\ c.index_name = MAPPED_INDEX /\ c.top_k = MaxHits
        /\ \/ c.search_method = "keyword" /\ c.vector_weight = DEFAULT_VECTOR_WEIGHT
           \/ c.search_method = "hybrid" /\ c.vector_weight = 4 /\ c.tolerance = MaxTol }

Init ==
    /\ config \in ChatConfigs
    /\ wiring = FactoryWiring(config)
    /\ op = [name |-> "generate_streaming_response"]
    /\ ret = Idle
    /\ ChatIdle
    /\ NoThreads

Next ==
    \/ SubmitTasks
    \/ SubmitFails
    \/ SearchResultsWorker
    \/ StreamWorker
    \/ AwaitStream
    \/ StartGenerator
    \/ PullChunk
    \/ EmitChunk
    \/ TypingDelay
    \/ ResponseCompleted
    \/ Pause
    \/ SendSearchResults
    \/ Completed

Spec == Init /\ [][Next]_vars

\* the steps by which the coroutine generate_streaming_response goes on
\* after it has submitted its two functions
CoroutineStep ==
    \/ AwaitStream
    \/ StartGenerator
    \/ PullChunk
    \/ EmitChunk
    \/ TypingDelay
    \/ ResponseCompleted
    \/ Pause
    \/ SendSearchResults
    \/ Completed

\* both functions handed to the executor return
TasksReturn ==
    /\ []<>(search_results_task # Pending)
    /\ []<>(stream_task # Pending)

\* The event loop resumes a coroutine that can go on (a sleep ends, a done
\* future wakes its awaiter), and the two offloaded functions return.
SpecLive ==
    /\ Init /\ [][Next]_vars
    /\ WF_vars(CoroutineStep)
    /\ TasksReturn

----------------------------------------------------------------------------
(* SpecRun: RAGPipeline.run and run_stream, and the ChatService calls      *)
(* built on run and search_only, applied to bounded inputs.                *)

\* texts the generation adapter may give: nothing, one character, more than
\* one emission's worth, and one with whitespace around it
AdapterTexts == { << >>, << "a" >>, << "b", "c", "d", "e" >> }

GenOutcomes == [answer : AdapterTexts \cup { << " ", "a", " " >> }, raises : BOOLEAN]

StreamOutcomes == [chunks : SeqsUpTo(AdapterTexts, MaxChunks), raises : BOOLEAN]

EscapePoints == {"none", "expand_results", "build_context", "generate_answer"}

RunEnvs ==
    [engine : SearchEngines, failing : FailSets, textless : { {}, {100} },
     escapes : EscapePoints, gen : GenOutcomes,
     stream : { [chunks |-> << >>, raises |-> FALSE] }]

RunStreamEnvs ==
    [engine : SearchEngines, failing : FailSets, textless : { {}, {100} },
     escapes : EscapePoints \ {"generate_answer"},
     gen : { [answer |-> << >>, raises |-> FALSE] },
     stream : StreamOutcomes]

\* what the ChatService calls meet: no stage lets an exception out
ResponseEnvs ==
    { e \in RunEnvs : e.escapes = "none" /\ e.textless = {} /\ e.gen.answer = << "a" >> }

InitRun ==
    /\ config \in { c \in SearchConfigs :
                      /\ c.index_name = MAPPED_INDEX
                      /\ c.search_method \in {"keyword", "vector", "hybrid"}
                      /\ c.top_k = MaxHits /\ c.vector_weight = DEFAULT_VECTOR_WEIGHT }
    /\ wiring \in { FactoryWiring(config), [FactoryWiring(config) EXCEPT !.rev = "core"] }
    /\ op \in [name : {"run"}, user_filter : { << >> }, env : RunEnvs]
            \cup [name : {"run_stream"}, user_filter : { << >> }, env : RunStreamEnvs]
            \cup [name : {"generate_response", "get_search_results",
                          "get_search_results_sync"},
                  user_filter : { << >> }, env : ResponseEnvs]
    /\ ret = Pending
    /\ ChatIdle
    /\ NoThreads

\* RAGPipeline.run(user_query, user_filter)
RunCall ==
    /\ op.name = "run"
    /\ ret = Pending
    /\ ret' = run(config, wiring, op.user_filter, op.env)
    /\ UNCHANGED << procVars, config, wiring, op, chatVars >>

\* RAGPipeline.run_stream(user_query, user_filter)
RunStreamCall ==
    /\ op.name = "run_stream"
    /\ ret = Pending
    /\ ret' = run_stream(config, wiring, op.user_filter, op.env)
    /\ UNCHANGED << procVars, config, wiring, op, chatVars >>

\* ChatService.generate_response(query, filters)
GenerateResponseCall ==
    /\ op.name = "generate_response"
    /\ ret = Pending
    /\ ret' = generate_response(config, wiring, << >>, op.env)
    /\ UNCHANGED << procVars, config, wiring, op, chatVars >>

\* ChatService.get_search_results(query, filters)
GetSearchResultsCall ==
    /\ op.name = "get_search_results"
    /\ ret = Pending
    /\ ret' = get_search_results(config, wiring, << >>, op.env.engine)
    /\ UNCHANGED << procVars, config, wiring, op, chatVars >>

\* ChatService.get_search_results_sync(query, filters)
GetSearchResultsSyncCall ==
    /\ op.name = "get_search_results_sync"
    /\ ret = Pending
    /\ ret' = get_search_results_sync(config, wiring, << >>, op.env.engine)
    /\ UNCHANGED << procVars, config, wiring, op, chatVars >>

NextRun ==
    \/ RunCall
    \/ RunStreamCall
    \/ GenerateResponseCall
    \/ GetSearchResultsCall
    \/ GetSearchResultsSyncCall

SpecRun == InitRun /\ [][NextRun]_vars

----------------------------------------------------------------------------
(* SpecFormat: ChatService._format_search_results applied to bounded hits. *)

\* raw engine scores: the expansion sentinel, the ends of [0, 1], and a
\* keyword relevance above 1
RawScores == {EXPANDED_SCORE, 0, 1, 3}

FormatHits ==
    { [i \in DOMAIN docs |-> [docs[i][1] EXCEPT !.score = docs[i][2]]] :
        docs \in SeqsUpTo(RankedDocs \X RawScores, MaxHits) }

InitFormat ==
    /\ config \in { c \in SearchConfigs :
                      /\ c.index_name = MAPPED_INDEX /\ c.search_method = "keyword"
                      /\ c.top_k = MaxHits /\ c.tolerance = 0
                      /\ c.vector_weight = DEFAULT_VECTOR_WEIGHT }
    /\ wiring = FactoryWiring(config)
    /\ op \in [name : {"format_search_results"}, hits : FormatHits]
    /\ ret = Pending
    /\ ChatIdle
    /\ NoThreads

\* ChatService._format_search_results(hits)
FormatSearchResultsCall ==
    /\ op.name = "format_search_results"
    /\ ret = Pending
    /\ ret' = Returns(format_search_results(op.hits))
    /\ UNCHANGED << procVars, config, wiring, op, chatVars >>

NextFormat == FormatSearchResultsCall

SpecFormat == InitFormat /\ [][NextFormat]_vars

----------------------------------------------------------------------------
(* SpecDeps: get_chat_service, an lru_cache'd dependency that the framework *)
(* resolves on a worker thread for every request.                          *)

\* requests in flight at once
NumRequests == 3

RequestIds == 1..NumRequests

\* a request's dependency resolution: position and the service it holds
Resolving(pc, chat_service) == [pc |-> pc, chat_service |-> chat_service]

\* the process: the cache of get_chat_service and the ChatService instances
\* constructed so far (instance k is the k-th constructed)
Process(cache, instances) == [cache |-> cache, instances |-> instances]

\* get_custom_pipeline_config(): text context, minio storage
get_custom_pipeline_config(search_config) == PipelineConfig(search_config, "text", "minio")

InitDeps ==
    /\ config \in ChatConfigs
    /\ wiring = FactoryWiring(config)
    /\ op = [name |-> "get_chat_service"]
    /\ ret = Idle
    /\ ChatIdle
    /\ threads = [t \in RequestIds |-> Resolving("lookup", 0)]
    /\ shared = Process(Absent, 0)

\* the lru_cache wrapper looks the key up: a hit returns the cached service,
\* a miss goes on to call the function
CacheLookup(t) ==
    /\ threads[t].pc = "lookup"
    /\ threads' = [threads EXCEPT ![t] =
                     IF shared.cache # Absent
                     THEN Resolving("served", shared.cache[1])
                     ELSE Resolving("construct", 0)]
    /\ UNCHANGED << shared, config, wiring, opVars, chatVars >>

\* how ChatService.__init__ ends on a thread: a new instance, or the
\* factory's exception re-raised (nothing is cached)
Constructed(t, built) ==
    IF built.status = "raise"
    THEN /\ threads' = [threads EXCEPT ![t] = Resolving("raised", 0)]
         /\ UNCHANGED shared
    ELSE /\ shared' = [shared EXCEPT !.instances = @ + 1]
         /\ threads' = [threads EXCEPT ![t] = Resolving("store", shared.instances + 1)]

\* the function body: ChatService(get_custom_pipeline_config())
ConstructService(t) ==
    /\ threads[t].pc = "construct"
    /\ \E ping \in BOOLEAN :
          Constructed(t, create_pipeline(get_custom_pipeline_config(config), ping))
    /\ UNCHANGED << config, wiring, opVars, chatVars >>

\* back in the wrapper: the result is cached unless the key was added while
\* the function ran; the caller gets its own result either way
CacheStore(t) ==
    /\ threads[t].pc = "store"
    /\ shared' = IF shared.cache = Absent
                 THEN [shared EXCEPT !.cache = Given(threads[t].chat_service)]
                 ELSE shared
    /\ threads' = [threads EXCEPT ![t].pc = "served"]
    /\ UNCHANGED << config, wiring, opVars, chatVars >>

NextDeps ==
    \E t \in RequestIds : CacheLookup(t) \/ ConstructService(t) \/ CacheStore(t)

SpecDeps == InitDeps /\ [][NextDeps]_vars

----------------------------------------------------------------------------
(* SpecFusion: ElasticSearcher._apply_rrf_fusion applied to ranked lists.  *)

\* longest ranked list
MaxRank == 13

RrfKs == {1, 2, DEFAULT_RRF_K}

\* the n best documents of a ranking whose ids start after base
RankedList(base, n) ==
    Ranked([i \in 1..n |-> Doc(base + i, "A.pdf", FormatPage(i))])

Reversed(hits) == Ranked([i \in DOMAIN hits |-> hits[Len(hits) + 1 - i]])

\* the other system's ranking: nothing, the same ranking, other documents,
\* or the same documents in the opposite order
OtherRankings(hits) ==
    { << >>, hits, RankedList(600, Len(hits)), Reversed(hits) }

\* a ranking and its partner, as (text, vector) and as (vector, text)
PairsOf(hits) ==
    UNION { { << hits, v >>, << v, hits >> } : v \in OtherRankings(hits) }

RankingPairs == UNION { PairsOf(RankedList(500, n)) : n \in 0..MaxRank }

InitFusion ==
    /\ config \in { c \in SearchConfigs :
                      /\ c.index_name = MAPPED_INDEX /\ c.search_method = "hybrid"
                      /\ c.top_k = MaxHits /\ c.tolerance = 0
                      /\ c.vector_weight = DEFAULT_VECTOR_WEIGHT }
    /\ wiring = FactoryWiring(config)
    /\ \E pair \in RankingPairs, k \in RrfKs, h \in TieBreaks :
          op = [name |-> "apply_rrf_fusion", text_results |-> pair[1],
                vector_results |-> pair[2], rrf_k |-> k, top_k |-> config.top_k,
                half_up |-> h]
    /\ ret = Pending
    /\ ChatIdle
    /\ NoThreads

\* ElasticSearcher._apply_rrf_fusion(text_results, vector_results, rrf_k, top_k)
ApplyRrfFusionCall ==
    /\ op.name = "apply_rrf_fusion"
    /\ ret = Pending
    /\ ret' = Returns(apply_rrf_fusion(op.text_results, op.vector_results, op.rrf_k,
                                       op.top_k, op.half_up))
    /\ UNCHANGED << procVars, config, wiring, op, chatVars >>

NextFusion == ApplyRrfFusionCall

SpecFusion == InitFusion /\ [][NextFusion]_vars

----------------------------------------------------------------------------
(* SpecFilter: FilterBuilder.create_folder_filters and                      *)
(* Retriever._create_filters applied to bounded filter strings.            *)

\* longest filter string enumerated
MaxFilterLen == 5

FilterChars == {"a", "b", " ", "/", "&"}

FilterStrings == SeqsUpTo(FilterChars, MaxFilterLen) \cup {SampleFilter}

InitFilter ==
    /\ config \in { c \in SearchConfigs :
                      /\ c.index_name = MAPPED_INDEX /\ c.search_method = "keyword"
                      /\ c.top_k = MaxHits /\ c.tolerance = 0
                      /\ c.vector_weight = DEFAULT_VECTOR_WEIGHT }
    /\ wiring = FactoryWiring(config)
    /\ op \in [name : {"create_folder_filters", "create_filters"}, user_filter : FilterStrings]
    /\ ret = Pending
    /\ ChatIdle
    /\ NoThreads

\* FilterBuilder.create_folder_filters(user_filter)
CreateFolderFiltersCall ==
    /\ op.name = "create_folder_filters"
    /\ ret = Pending
    /\ ret' = Returns(create_folder_filters(op.user_filter, "gcs_path"))
    /\ UNCHANGED << procVars, config, wiring, op, chatVars >>

\* Retriever._create_filters(user_filter)
CreateFiltersCall ==
    /\ op.name = "create_filters"
    /\ ret = Pending
    /\ ret' = Returns(create_filters(op.user_filter))
    /\ UNCHANGED << procVars, config, wiring, op, chatVars >>

NextFilter == CreateFolderFiltersCall \/ CreateFiltersCall

SpecFilter == InitFilter /\ [][NextFilter]_vars

----------------------------------------------------------------------------
(* SpecContext: ContextBuilder.build_context with image context, run by     *)
(* requests on worker threads of one process.  The threads share the       *)
(* local directory tmp/; each step of _create_image_part that touches it   *)
(* (download, open and read, remove) is one action.                        *)

\* requests building image context at the same time
NumBuilders == 2

\* hits per request
MaxImageHits == 2

BuilderIds == 1..NumBuilders

\* os.path.basename(path)
basename(path) == LET parts == split(path, "/") IN parts[Len(parts)]

ContextImagePrefix ==
    << "c", "o", "n", "t", "e", "x", "t", "_", "i", "m", "a", "g", "e", "_" >>

\* os.path.join("tmp", f"context_image_{index}_{os.path.basename(image_path)}")
LocalPath(index, image_path) ==
    << "t", "m", "p", "/" >> \o ContextImagePrefix \o << ToString(index), "_" >>
        \o basename(image_path)

\* source.get("minio_image_path") or source.get("image_path"), "" if neither
ImagePaths == { << >>, << "a", "/", "x" >>, << "b", "/", "x" >>, << "a", "/", "y" >> }

\* a file of the local directory: its bytes are those of the stored object
\* it was downloaded from; writer is the request that downloaded it
LocalFile(path, data, writer) == [path |-> path, data |-> data, writer |-> writer]

\* a request inside build_context: the hits, the index of the hit at hand,
\* the position in _create_image_part, the bytes read, the parts so far and
\* the local paths written, read and removed so far
Building(hits, index, pc, image_bytes, parts, touched) ==
    [hits |-> hits, index |-> index, pc |-> pc, image_bytes |-> image_bytes,
     parts |-> parts, touched |-> touched]

Touch(act, path, owner) == [act |-> act, path |-> path, owner |-> owner]

FileAt(path) == { f \in shared : f.path = path }

InitContext ==
    /\ config \in { c \in ChatConfigs : c.search_method = "keyword" /\ c.tolerance = 0 }
    /\ wiring = FactoryWiring(config)
    /\ op = [name |-> "build_context", context_type |-> "image"]
    /\ ret = Idle
    /\ ChatIdle
    /\ threads \in [BuilderIds ->
                      { Building(hits, 0, "hit", << >>, << >>, {}) :
                          hits \in SeqsUpTo(ImagePaths, MaxImageHits) \ { << >> } }]
    /\ shared = {}

\* the hit at hand, index counted from 0
ImagePathOf(b) == b.hits[b.index + 1]

\* the for loop of build_context moves on with this part (<< >> is None)
NextHit(b, part) ==
    [b EXCEPT !.index = @ + 1,
              !.pc = IF b.index + 1 < Len(b.hits) THEN "hit" ELSE "done",
              !.image_bytes = << >>,
              !.parts = @ \o part]

\* lines 118-127: no image path gives None, otherwise the local path is made
ImagePath(t) ==
    /\ threads[t].pc = "hit"
    /\ threads' = [threads EXCEPT ![t] =
                     IF ImagePathOf(threads[t]) = << >>
                     THEN NextHit(threads[t], << >>)
                     ELSE [threads[t] EXCEPT !.pc = "download"]]
    /\ UNCHANGED << shared, config, wiring, opVars, chatVars >>

\* what a download leaves behind: the whole object, nothing, or the file the
\* storage client opened for writing before the transfer failed
DownloadOutcomes == {"downloaded", "failed", "failed_partial"}

\* line 130, storage.download_file: the object is written to local_path,
\* replacing what is there, or the download fails and the part is None;
\* lines 131-132 return without a cleanup
DownloadFile(t) ==
    /\ threads[t].pc = "download"
    /\ LET image_path == ImagePathOf(threads[t])
           local_path == LocalPath(threads[t].index, image_path)
       IN \E outcome \in DownloadOutcomes :
            IF outcome = "downloaded"
            THEN /\ shared' = (shared \ FileAt(local_path))
                                 \cup { LocalFile(local_path, image_path, t) }
                 /\ threads' = [threads EXCEPT ![t].pc = "read",
                                  ![t].touched = @ \cup { Touch("write", local_path, t) }]
            ELSE /\ threads' = [threads EXCEPT ![t] = NextHit(threads[t], << >>)]
                 /\ shared' = IF outcome = "failed_partial"
                              THEN (shared \ FileAt(local_path))
                                      \cup { LocalFile(local_path, << >>, t) }
                              ELSE shared
    /\ UNCHANGED << config, wiring, opVars, chatVars >>

\* lines 136-137: open(local_path, "rb") and read; a missing or unreadable
\* file raises and the handler at 147-150 takes over
ReadImage(t) ==
    /\ threads[t].pc = "read"
    /\ LET local_path == LocalPath(threads[t].index, ImagePathOf(threads[t]))
       IN \E readable \in BOOLEAN :
            IF FileAt(local_path) = {} \/ ~readable
            THEN threads' = [threads EXCEPT ![t].pc = "cleanup_failed"]
            ELSE LET f == CHOOSE f \in FileAt(local_path) : TRUE
                 IN threads' = [threads EXCEPT ![t].pc = "cleanup",
                                  ![t].image_bytes = f.data,
                                  ![t].touched = @ \cup { Touch("read", local_path, f.writer) }]
    /\ UNCHANGED << shared, config, wiring, opVars, chatVars >>

\* lines 140 and 149, storage.cleanup_local_file: the file is removed if it
\* exists; then the part made of the bytes read, or None after a failed read
CleanupLocalFile(t) ==
    /\ threads[t].pc \in {"cleanup", "cleanup_failed"}
    /\ LET local_path == LocalPath(threads[t].index, ImagePathOf(threads[t]))
           removed == { Touch("remove", local_path, f.writer) : f \in FileAt(local_path) }
           part == IF threads[t].pc = "cleanup"
                   THEN << [kind |-> "image", data |-> threads[t].image_bytes] >>
                   ELSE << >>
       IN /\ shared' = shared \ FileAt(local_path)
          /\ threads' = [threads EXCEPT ![t] =
                           NextHit([threads[t] EXCEPT !.touched = @ \cup removed], part)]
    /\ UNCHANGED << config, wiring, opVars, chatVars >>

NextContext ==
    \E t \in BuilderIds :
        ImagePath(t) \/ DownloadFile(t) \/ ReadImage(t) \/ CleanupLocalFile(t)

SpecContext == InitContext /\ [][NextContext]_vars

----------------------------------------------------------------------------
(* SpecConfig: pipelines of one process and RAGPipeline.update_search_-     *)
(* config.  A SearchConfig is an object: the heap holds the objects, a     *)
(* pipeline holds the reference its Retriever was given.                   *)

\* pipelines created in the process
MaxPipelines == 2

\* SearchConfig(): the dataclass defaults
DefaultSearchConfig ==
    SearchConfig(MAPPED_INDEX, "keyword", 10, 3,
                 << DEFAULT_VECTOR_WEIGHT, DEFAULT_TEXT_WEIGHT >>)

\* DEFAULT_CONFIG = PipelineConfig(): its search object is the first of the heap
DEFAULT_CONFIG == [search |-> 1]

\* the process: SearchConfig objects by reference, and for each pipeline the
\* reference held by pipeline.retriever.config
Configured(heap, pipelines) == [heap |-> heap, pipelines |-> pipelines]

\* search configurations a caller builds itself
CustomSearchConfigs ==
    { SearchConfig(MAPPED_INDEX, "hybrid", 10, 3, << 4, 6 >>), DefaultSearchConfig }

\* keyword arguments of update_search_config
UpdateKwargs ==
    { [top_k |-> 5], [tolerance |-> 0], [rerank |-> TRUE],
      [search_method |-> "vector", boost |-> 2] }

\* update_search_config(**kwargs) on the object cfg: setattr for the fields
\* the object has, a warning for the others
update_search_config(cfg, kwargs) ==
    [k \in DOMAIN cfg |-> IF k \in DOMAIN kwargs THEN kwargs[k] ELSE cfg[k]]

InitConfig ==
    /\ config = DefaultSearchConfig
    /\ wiring = FactoryWiring(config)
    /\ op = [name |-> "import"]
    /\ ret = Idle
    /\ ChatIdle
    /\ threads = << >>
    /\ shared = Configured(<< DefaultSearchConfig >>, << >>)

\* create_pipeline(): config is None, so config = DEFAULT_CONFIG and the
\* Retriever is given DEFAULT_CONFIG.search itself
CreateDefaultPipeline ==
    /\ Len(shared.pipelines) < MaxPipelines
    /\ shared' = [shared EXCEPT !.pipelines = Append(@, DEFAULT_CONFIG.search)]
    /\ op' = [name |-> "create_pipeline", config |-> "DEFAULT_CONFIG"]
    /\ UNCHANGED << threads, config, wiring, ret, chatVars >>

\* create_pipeline(PipelineConfig(search=SearchConfig(...))): the Retriever
\* is given the caller's new object
CreateCustomPipeline ==
    /\ Len(shared.pipelines) < MaxPipelines
    /\ \E sc \in CustomSearchConfigs :
          shared' = Configured(Append(shared.heap, sc),
                               Append(shared.pipelines, Len(shared.heap) + 1))
    /\ op' = [name |-> "create_pipeline", config |-> "custom"]
    /\ UNCHANGED << threads, config, wiring, ret, chatVars >>

\* pipeline.update_search_config(**kwargs) on the p-th pipeline
UpdateSearchConfig(p) ==
    /\ \E kwargs \in UpdateKwargs :
          /\ shared' = [shared EXCEPT !.heap[shared.pipelines[p]] =
                                          update_search_config(@, kwargs)]
          /\ op' = [name |-> "update_search_config", pipeline |-> p, kwargs |-> kwargs]
    /\ UNCHANGED << threads, config, wiring, ret, chatVars >>

NextConfig ==
    \/ CreateDefaultPipeline
    \/ CreateCustomPipeline
    \/ \E p \in DOMAIN shared.pipelines : UpdateSearchConfig(p)

SpecConfig == InitConfig /\ [][NextConfig]_vars

----------------------------------------------------------------------------
(* Claims about page expansion (SpecExpand).                               *)

Returned == ret # Pending

InputIds == { op.hits[i].id : i \in DOMAIN op.hits }

\* the lookups issued for input hit i, in order
LookupsOf(i) == SelectSeq(ret.lookups, LAMBDA l : l.hit = i)

\* C6 (as claimed): expand_results called with tolerance 0 returns ([], hits)
\* and issues no search-engine call whatever tolerance the config stores, and
\* a tolerance that is given decides the result alone: the stored tolerance
\* matters only when the argument is absent.
C6_ExplicitZeroToleranceShortCircuits ==
    (Returned /\ op.name = "expand_results" /\ op.tolerance # Absent) =>
        /\ op.tolerance = Given(0) =>
              /\ ret.expanded_hits = << >>
              /\ ret.total_hits = op.hits
              /\ ret.lookups = << >>
        /\ \A t \in 0..MaxTol :
              ret = expand_results([config EXCEPT !.tolerance = t],
                                   op.hits, op.tolerance, op.failing)

\* C7: for each input hit with a path and a page p, expand_search_results
\* with tolerance t looks up exactly the pages p+d, d in [-t, t], d # 0,
\* p+d >= 0, each once, as a 5-digit zero-padded string and under the hit's
\* path; a hit without a path or a page number causes no lookup.
C7_LookupsAreTheNeighbourPages ==
    (Returned /\ op.name = "expand_search_results") =>
        \A i \in DOMAIN op.hits :
            LET h == op.hits[i]
                mine == LookupsOf(i)
                t == op.tolerance[1]
            IN IF h.gcs_pdf_path = "" \/ h.page_number = << >>
               THEN mine = << >>
               ELSE LET p == ParseInt(h.page_number)
                        wanted == { n \in (p - t)..(p + t) : n # p /\ n >= 0 }
                    IN /\ \A k \in DOMAIN mine :
                             /\ mine[k].path = h.gcs_pdf_path
                             /\ Len(mine[k].page) = 5
                             /\ \A x \in DOMAIN mine[k].page : mine[k].page[x] \in 0..9
                       /\ { ParseInt(mine[k].page) : k \in DOMAIN mine } = wanted
                       /\ Len(mine) = Cardinality(wanted)

\* C7 witness: a hit on page 1 expanded with tolerance 2: page -1 is skipped,
\* pages 0, 2 and 3 are looked up.
C7_Witness ==
    /\ Returned /\ op.name = "expand_search_results" /\ op.tolerance = Given(2)
    /\ \E i \in DOMAIN op.hits :
          /\ op.hits[i].gcs_pdf_path = "A.pdf"
          /\ op.hits[i].page_number = << 0, 0, 0, 0, 1 >>
          /\ Len(LookupsOf(i)) = 3

\* C8: every hit expansion returns has score -1 and an id that is neither an
\* input hit's id nor another returned hit's id; the input hits come back
\* unchanged (scores included) at the head of total_hits.
C8_ExpandedHitsAreNewAndMarked ==
    Returned =>
        /\ \A j \in DOMAIN ret.expanded_hits :
              /\ ret.expanded_hits[j].score = 0 - 1
              /\ ret.expanded_hits[j].id \notin InputIds
              /\ \A k \in DOMAIN ret.expanded_hits :
                    k # j => ret.expanded_hits[k].id # ret.expanded_hits[j].id
        /\ op.name = "expand_results" =>
              /\ Len(ret.total_hits) >= Len(op.hits)
              /\ SubSeq(ret.total_hits, 1, Len(op.hits)) = op.hits

\* C8 witness: the same neighbouring page is looked up from two input hits,
\* and a page holding an input hit is looked up from its neighbour.
C8_Witness ==
    /\ Returned /\ op.name = "expand_search_results"
    /\ ret.expanded_hits # << >>
    /\ \E a, b \in DOMAIN ret.lookups :
          /\ ret.lookups[a].hit # ret.lookups[b].hit
          /\ ret.lookups[a].path = ret.lookups[b].path
          /\ ret.lookups[a].page = ret.lookups[b].page
          /\ TermLookup(ret.lookups[a].path, ret.lookups[a].page) # << >>
          /\ << ret.lookups[a].path, ret.lookups[a].page >> \notin op.failing
    /\ \E a \in DOMAIN ret.lookups :
          \E d \in Range(TermLookup(ret.lookups[a].path, ret.lookups[a].page)) :
              d.id \in InputIds

\* the lookups of the call that failed, and those that were answered
FailedLookups == { k \in DOMAIN ret.lookups :
                     << ret.lookups[k].path, ret.lookups[k].page >> \in op.failing }

AnsweredLookups == DOMAIN ret.lookups \ FailedLookups

\* the documents the answered lookups found
FoundIds ==
    UNION { { d.id : d \in Range(TermLookup(ret.lookups[k].path, ret.lookups[k].page)) } :
              k \in AnsweredLookups }

\* C22: a failing lookup does not end the expansion: the lookups issued are
\* those of a call without failures, the expansion hits are the documents
\* found by all the lookups that were answered (input hits excepted), and
\* expand_results returns the originals followed by them.
C22_FailedLookupDoesNotAbort ==
    (Returned /\ op.name \in {"expand_results", "expand_search_results"}) =>
        /\ ret.lookups = (IF op.name = "expand_results"
                          THEN expand_results(config, op.hits, op.tolerance, {})
                          ELSE expand_search_results(config.index_name, op.hits,
                                                     op.tolerance[1], {})).lookups
        /\ { ret.expanded_hits[j].id : j \in DOMAIN ret.expanded_hits } = FoundIds \ InputIds
        /\ op.name = "expand_results" => ret.total_hits = op.hits \o ret.expanded_hits

\* C22 witness: a lookup failed between two answered ones that both found
\* new documents, and expand_results returned originals and expansion hits.
C22_Witness ==
    /\ Returned /\ op.name = "expand_results"
    /\ \E k \in FailedLookups :
          /\ \E a \in AnsweredLookups :
                a < k /\ \E d \in Range(TermLookup(ret.lookups[a].path, ret.lookups[a].page)) :
                            d.id \notin InputIds
          /\ \E b \in AnsweredLookups :
                b > k /\ \E d \in Range(TermLookup(ret.lookups[b].path, ret.lookups[b].page)) :
                            d.id \notin InputIds
    /\ Len(ret.expanded_hits) >= 2
    /\ ret.total_hits = op.hits \o ret.expanded_hits

----------------------------------------------------------------------------
(* Claims about Retriever.search (SpecSearch).                             *)

\* the stored config with the per-call overrides applied
Overridden(cfg, kwargs) ==
    [k \in DOMAIN cfg |-> IF k \in DOMAIN kwargs THEN kwargs[k] ELSE cfg[k]]

\* nothing but the hybrid search itself can fail: no override, a mapped
\* index, an embedder, an embedding call that succeeds
HybridReady ==
    /\ op.name = "search" /\ op.kwargs = << >>
    /\ config.search_method = "hybrid"
    /\ config.index_name = MAPPED_INDEX
    /\ wiring.embedder # Absent
    /\ ~op.engine.embed_raises

\* C9 (as claimed): a hybrid search reaches the adapter's hybrid search, and
\* the score script carries the configured vector_weight and text_weight.
C9_HybridUsesConfiguredWeights ==
    (Returned /\ HybridReady) =>
        /\ ret.exc # "TypeError"
        /\ \E i \in DOMAIN ret.calls :
              /\ ret.calls[i].adapter = "search"
              /\ ret.calls[i].fn = "hybrid_search"
              /\ ret.calls[i].args.script_vector_weight = config.vector_weight
              /\ ret.calls[i].args.script_text_weight = config.text_weight

\* C10 (as claimed): a search with per-call overrides does what a search
\* without overrides does on the config with the overridden values.
C10_OverridesTakePrecedence ==
    (Returned /\ op.name = "search" /\ op.kwargs # << >>) =>
        ret = search(Overridden(config, op.kwargs), wiring, op.user_filter, << >>, op.engine)

\* an adapter the configured method requires is absent from the Retriever:
\* the embedder for vector; the embedder or the query enhancer for hybrid,
\* hyde and hyde_hybrid
RequiredAdapterAbsent ==
    \/ config.search_method = "vector" /\ wiring.embedder = Absent
    \/ /\ config.search_method \in {"hybrid", "hyde", "hyde_hybrid"}
       /\ (wiring.embedder = Absent \/ ~wiring.query_enhancer)

\* C23: Retriever.search raises a configuration error and issues no call to
\* the search adapter whenever an adapter the selected method requires is
\* absent.
C23_AbsentAdapterIsConfigurationError ==
    (Returned /\ op.name = "search" /\ op.kwargs = << >> /\ RequiredAdapterAbsent) =>
        /\ ret.status = "raise"
        /\ ret.exc = "ValueError"
        /\ SearchCalls(ret.calls) = << >>

\* a direct hybrid_search call that selected RRF fusion and returned
RrfReturned ==
    /\ Returned /\ op.name = "hybrid_search"
    /\ "fusion_method" \in DOMAIN op.kw /\ op.kw.fusion_method = "rrf"
    /\ ret.status # "raise"

\* the two lists _rrf_hybrid_search fuses: 2 * top_k hits of each ranking
RrfTextList == Take(op.engine.hits, 2 * op.kw.top_k)

RrfVectorList == Take(op.engine.vector_hits, 2 * op.kw.top_k)

IdsOf(hits) == { hits[i].id : i \in DOMAIN hits }

\* the rrf_k of the call
RrfKOf == IF "fusion_params" \in DOMAIN op.kw /\ "rrf_k" \in DOMAIN op.kw.fusion_params
          THEN op.kw.fusion_params.rrf_k
          ELSE DEFAULT_RRF_K

\* a common multiple of rrf_k + rank over the ranks of two lists of 2 * top_k
RrfScale == LET prod[r \in 0..(2 * op.kw.top_k)] ==
                    IF r = 0 THEN 1 ELSE (RrfKOf + r) * prod[r - 1]
            IN prod[2 * op.kw.top_k]

\* the fused score of a document, times RrfScale
ScaledFusedScore(doc_id) ==
    LET part(list) == IF doc_id \in IdsOf(list)
                      THEN RrfScale \div
                             (RrfKOf + (CHOOSE r \in DOMAIN list : list[r].id = doc_id))
                      ELSE 0
    IN part(RrfTextList) + part(RrfVectorList)

----------------------------------------------------------------------------
(* Claims about RAGPipeline.run and run_stream (SpecRun).                  *)

PipelineCall == Returned /\ op.name \in {"run", "run_stream"}

\* what retrieval did in this call
Retrieved == search(config, wiring, op.user_filter, << >>, op.env.engine)

\* a stage call after retrieval lets an exception out
StageEscapes ==
    /\ Retrieved.status = "ok" /\ Retrieved.hits # << >>
    /\ \/ op.env.escapes = "expand_results" /\ config.tolerance > 0
       \/ op.env.escapes \in {"build_context", "generate_answer"}

ExceptionNames ==
    {"TypeError", "ValueError", "ConnectionError", "EmbeddingError", "StageError"}

StagesNamed(name) == SelectSeq(ret.stages, LAMBDA st : st.stage = name)

AnswerCalls ==
    SelectSeq(ret.calls, LAMBDA c : c.fn \in {"generate_multimodal", "generate_multimodal_stream"})

\* C3: run never propagates an exception; when retrieval, expansion,
\* context-building or generation raises, run returns an error-message
\* answer and two empty hit lists.
C3_RunNeverPropagates ==
    (Returned /\ op.name = "run") =>
        /\ ret.status = "return"
        /\ (Retrieved.status = "raise" \/ StageEscapes) =>
              /\ \E e \in ExceptionNames : ret.answer = ErrorAnswer(e)
              /\ ret.total_hits = << >>
              /\ ret.hits = << >>

\* C3 witness: generation raises after retrieval, expansion and context
\* building succeeded, and run has returned the error answer.
C3_Witness ==
    /\ Returned /\ op.name = "run"
    /\ Retrieved.status = "ok" /\ Retrieved.hits # << >>
    /\ config.tolerance > 0
    /\ op.env.escapes = "generate_answer"
    /\ ret.answer = ErrorAnswer("StageError")

\* C4: when retrieval returns no hits, run returns the fixed no-results
\* answer and run_stream a stream of exactly one no-results chunk, both hit
\* lists are empty, and nothing follows retrieval: no expansion (stage or
\* lookup), no context building, no call of the generation adapter for an
\* answer, not even when the stream is drained.
C4_EmptyRetrievalShortCircuits ==
    (PipelineCall /\ Retrieved.status = "ok" /\ Retrieved.hits = << >>) =>
        /\ ret.status = "return"
        /\ ret.total_hits = << >> /\ ret.hits = << >>
        /\ \A i \in DOMAIN ret.stages : ret.stages[i].stage = "search"
        /\ ret.lookups = << >>
        /\ ret.calls = Retrieved.calls
        /\ AnswerCalls = << >>
        /\ op.name = "run" => ret.answer = NO_RESULTS_ANSWER
        /\ op.name = "run_stream" =>
              /\ Drain(ret.answer_stream, op.env.stream).chunks = << NO_RESULTS_ANSWER >>
              /\ Drain(ret.answer_stream, op.env.stream).calls = << >>

\* C4 witness: run_stream on an empty retrieval although expansion is
\* configured and the generation adapter would have streamed chunks.
C4_Witness ==
    /\ Returned /\ op.name = "run_stream"
    /\ Retrieved.status = "ok" /\ Retrieved.hits = << >>
    /\ config.tolerance > 0
    /\ op.env.stream.chunks # << >>
    /\ ret.answer_stream.fn = "empty_generator"

\* C5: with configured tolerance 0 and a non-empty retrieval, run returns
\* total_hits identical to original_hits (the retrieved hits, same order),
\* issues no expansion lookup, and calls context building exactly once on
\* that hit list and generation exactly once on the context built from it.
C5_ZeroToleranceRunsOnTheHits ==
    (Returned /\ op.name = "run" /\ config.tolerance = 0 /\ op.env.escapes = "none"
          /\ Retrieved.status = "ok" /\ Retrieved.hits # << >>) =>
        /\ ret.status = "return"
        /\ ret.total_hits = ret.hits
        /\ ret.hits = Retrieved.hits
        /\ ret.lookups = << >>
        /\ StagesNamed("build_context") = << Stage("build_context", Retrieved.hits) >>
        /\ StagesNamed("generate_answer")
             = << Stage("generate_answer", build_context(Retrieved.hits, op.env.textless)) >>
        /\ Len(AnswerCalls) = 1
        /\ AnswerCalls[1].args.parts = build_context(Retrieved.hits, op.env.textless)

\* C5 witness: such a run on MaxHits hits whose neighbouring pages exist.
C5_Witness ==
    /\ Returned /\ op.name = "run" /\ config.tolerance = 0 /\ op.env.escapes = "none"
    /\ Retrieved.status = "ok" /\ Len(Retrieved.hits) = MaxHits
    /\ ret.total_hits = Retrieved.hits
    /\ ~op.env.gen.raises

----------------------------------------------------------------------------
(* Claims about the streaming chat call (Spec).                            *)

EventTypes == [i \in DOMAIN events |-> events[i].type]

\* number of response_chunk events
ChunkEvents == Len(SelectSeq(events, LAMBDA e : e.type = "response_chunk"))

\* the events after the first n
EventsAfter(n) == SubSeq(EventTypes, n + 1, Len(EventTypes))

SuccessTail == << "response_completed", "search_results", "completed" >>

IsPrefix(a, b) == Len(a) <= Len(b) /\ a = SubSeq(b, 1, Len(a))

RECURSIVE ChunkText(_)
\* the text the response_chunk events of a sequence carry, concatenated
ChunkText(evs) ==
    IF evs = << >> THEN << >>
    ELSE (IF Head(evs).type = "response_chunk" THEN Head(evs).value ELSE << >>)
         \o ChunkText(Tail(evs))

\* retrieval raised inside run_stream: its handler made the answer stream
RetrievalRaisedInRunStream ==
    /\ stream_task.status = "done"
    /\ stream_task.result.fn = "error_generator"

\* C1: in a streaming call that does not fail the event types are, at every
\* moment, a prefix of response_chunk* response_completed search_results
\* completed, and exactly that once the call has ended: nothing follows
\* completed.  The route writes one frame per event, in order.
C1_SuccessfulStreamOrder ==
    (request # Idle /\ request.fault = "none") =>
        /\ \A i \in 1..ChunkEvents : EventTypes[i] = "response_chunk"
        /\ IsPrefix(EventsAfter(ChunkEvents), SuccessTail)
        /\ cpc = "done" => EventsAfter(ChunkEvents) = SuccessTail
        /\ frames = [i \in DOMAIN events |-> Frame(events[i])]

\* C1 witness: a call ended after an answer of several chunks.
C1_Witness ==
    /\ cpc = "done" /\ request.fault = "none"
    /\ stream_task.result.fn = "answer_generator"
    /\ ChunkEvents >= 3
    /\ events[Len(events)].type = "completed"

\* C2 (as claimed): a call that fails before any chunk is produced, retrieval
\* raising inside run_stream included, emits exactly one error event and
\* nothing else.
C2_FailureBeforeChunksIsOneError ==
    (cpc = "done" /\ (request.fault # "none" \/ RetrievalRaisedInRunStream)) =>
        EventTypes = << "error" >>

\* C2 (amended): an exception that reaches generate_streaming_response before
\* any chunk gives exactly one error event; a retrieval failure inside
\* run_stream does not reach it: the error-message answer is streamed as
\* response_chunk events, followed by response_completed, search_results and
\* completed, and no error event is emitted.
C2_OnlyEscapingFailuresGiveOneError ==
    cpc = "done" =>
        /\ request.fault # "none" =>
              events = << StreamEvent("error", "error", "RuntimeError") >>
        /\ (request.fault = "none" /\ RetrievalRaisedInRunStream) =>
              /\ ChunkEvents >= 1
              /\ \A i \in 1..ChunkEvents : EventTypes[i] = "response_chunk"
              /\ EventsAfter(ChunkEvents) = SuccessTail
              /\ \E e \in ExceptionNames : ChunkText(events) = ErrorAnswer(e)

\* C2 witness: the second run_in_executor call raised after the first had
\* submitted the search: one error event, and the call has ended.
C2_Witness ==
    /\ cpc = "done" /\ request.fault = "submit_stream"
    /\ search_results_task # Idle
    /\ EventTypes = << "error" >>

\* the positions of the error events
ErrorEvents == { i \in DOMAIN events : events[i].type = "error" }

\* the positions of the error frames the route has written
ErrorFrames == { i \in DOMAIN frames : frames[i].json.type = "error" }

\* C17: at every moment of a streaming chat call there is at most one error
\* event and it is the last event, so no response_chunk, response_completed,
\* search_results or completed event follows it and completed and error never
\* both occur; a call in which an exception was raised has exactly one error
\* event and has ended; the route adds no error frame of its own.
C17_AtMostOneErrorAndItIsLast ==
    /\ Cardinality(ErrorEvents) <= 1
    /\ \A i \in ErrorEvents : i = Len(events)
    /\ ~(ErrorEvents # {} /\ \E i \in DOMAIN events : events[i].type = "completed")
    /\ (request # Idle /\ request.fault # "none") =>
          Cardinality(ErrorEvents) = 1 /\ cpc = "done"
    /\ ErrorFrames = ErrorEvents

\* C17 witness: the first run_in_executor call raised; the error event is
\* the only event and no function was submitted.
C17_Witness ==
    /\ cpc = "done" /\ request.fault = "submit_search"
    /\ search_results_task = Idle /\ stream_task = Idle
    /\ ErrorEvents = {1} /\ Len(events) = 1

RECURSIVE Joined(_)
\* "".join(chunks)
Joined(chunks) == IF chunks = << >> THEN << >> ELSE Head(chunks) \o Joined(Tail(chunks))

\* the generation adapter's streaming call was made and raised
GenerationAdapterFailed ==
    /\ request # Idle /\ request.fault = "none"
    /\ stream_generator # Idle /\ stream_generator.status # "created"
    /\ stream_generator.generator.fn = "answer_generator"
    /\ request.env.stream.raises

\* how often a text occurs in another
Occurrences(text, within) ==
    Cardinality({ i \in 0..(Len(within) - Len(text)) :
                    SubSeq(within, i + 1, i + Len(text)) = text })

\* C18: when the generation adapter fails during a streaming chat call,
\* before its first chunk or after some, no error event is emitted at any
\* moment, and once the call has ended the response_chunk events carry the
\* adapter's chunks followed by the apology text, which occurs exactly once,
\* and are followed by response_completed, search_results and completed.
C18_AdapterFailureStreamsApology ==
    GenerationAdapterFailed =>
        /\ ErrorEvents = {} /\ ErrorFrames = {}
        /\ cpc = "done" =>
              /\ ChunkText(events) = Joined(request.env.stream.chunks) \o APOLOGY
              /\ Occurrences(APOLOGY, ChunkText(events)) = 1
              /\ \A i \in 1..ChunkEvents : EventTypes[i] = "response_chunk"
              /\ EventsAfter(ChunkEvents) = SuccessTail

\* C18 witness: the adapter raised after a chunk; the call ended with that
\* chunk and the apology streamed.
C18_Witness ==
    /\ GenerationAdapterFailed /\ cpc = "done"
    /\ Joined(request.env.stream.chunks) # << >>
    /\ ChunkText(events) = Joined(request.env.stream.chunks) \o APOLOGY
    /\ events[Len(events)].type = "completed"

\* C18 witness, second case: the adapter raised before its first chunk.
C18_WitnessNoChunk ==
    /\ GenerationAdapterFailed /\ cpc = "done"
    /\ request.env.stream.chunks = << >>
    /\ ChunkText(events) = APOLOGY

\* C19: during a streaming chat call every call into a provider adapter,
\* the generation adapter's streaming call included, is made on a worker
\* thread and none on the event loop.
C19_AdapterCallsOnWorkerThreads ==
    \A i \in DOMAIN calls : calls[i].thread = "worker"

\* every chunk the answer stream of the call yields, in order
UpstreamChunks == Drain(stream_generator.generator, request.env.stream).chunks

RECURSIVE EventsFor(_)
\* the number of 1-3 character pieces the chunks are cut into
EventsFor(chunks) ==
    IF chunks = << >> THEN 0
    ELSE (Len(Head(chunks)) + 2) \div 3 + EventsFor(Tail(chunks))

\* C24: every response_chunk carries 1 to 3 characters; what has been sent,
\* then the buffer, then the chunks not yet pulled is at every moment the
\* upstream answer, so that the payloads of an ended call concatenate to the
\* upstream chunks in order; empty upstream chunks give no event; the buffer
\* is empty whenever the next upstream chunk is pulled.
C24_RechunkingPreservesTheAnswer ==
    /\ \A i \in DOMAIN events :
          events[i].type = "response_chunk" => Len(events[i].value) \in 1..3
    /\ (stream_generator # Idle /\ stream_generator.status # "created") =>
          /\ ChunkText(events) \o chunk_buffer = full_answer
          /\ full_answer \o Joined(stream_generator.rest) = Joined(UpstreamChunks)
          /\ cpc = "drain" => chunk_buffer = << >>
          /\ stream_generator.status = "exhausted" =>
                /\ ChunkText(events) = Joined(UpstreamChunks)
                /\ ChunkEvents = EventsFor(UpstreamChunks)

\* C24 witness: the adapter gave an empty chunk and a four-character chunk;
\* the call ended with two response_chunk events of 3 and 1 characters.
C24_Witness ==
    /\ cpc = "done" /\ request.fault = "none"
    /\ stream_generator.generator.fn = "answer_generator"
    /\ UpstreamChunks = << << >>, << "b", "c", "d", "e" >> >>
    /\ ChunkEvents = 2
    /\ events[1].value = << "b", "c", "d" >>
    /\ events[2].value = << "e" >>

\* the search of the search-results task, and the pipeline run of the
\* stream task with its own search
TaskSearch == search_only(config, wiring, JoinFilters(request.filters), request.results_engine)

StreamRun == run_stream(config, wiring, JoinFilters(request.filters), request.env)

\* the adapter calls made on worker threads, in order
WorkerCalls ==
    LET made == SelectSeq(calls, LAMBDA c : c.thread = "worker")
    IN [i \in DOMAIN made |-> made[i].call]

BothTasksDone ==
    /\ request # Idle /\ request.fault = "none"
    /\ search_results_task.status = "done" /\ stream_task.status = "done"

TaskSearchFailed ==
    /\ request # Idle /\ request.fault = "none"
    /\ TaskSearch.status = "raise"

\* C26: when search_only raises in the search-results task the failure is
\* swallowed: the task's result is the empty list, no error event is emitted
\* at any moment, and the ended call closes with response_completed, a
\* search_results event carrying the empty list, and completed.
C26_FailedSearchTaskIsSwallowed ==
    TaskSearchFailed =>
        /\ search_results_task.status = "done" => search_results_task.result = << >>
        /\ ErrorEvents = {}
        /\ \A i \in DOMAIN events :
              events[i].type = "search_results" => events[i].value = << >>
        /\ cpc = "done" =>
              /\ \A i \in 1..ChunkEvents : EventTypes[i] = "response_chunk"
              /\ EventsAfter(ChunkEvents) = SuccessTail

\* C26 witness: the task's search raised while run_stream found hits and the
\* answer was streamed; the call ended with the empty search_results event.
C26_Witness ==
    /\ TaskSearchFailed /\ cpc = "done"
    /\ StreamRun.hits # << >>
    /\ ChunkEvents >= 1
    /\ events[Len(events) - 1] = StreamEvent("search_results", "searchResults", << >>)
    /\ events[Len(events)].type = "completed"

\* the call has ended and its last event is completed or error
Terminated ==
    /\ cpc = "done"
    /\ events # << >>
    /\ events[Len(events)].type \in {"completed", "error"}

\* C30: under fair scheduling, with both tasks returning and a finite answer
\* stream, a call that was made eventually emits completed or error and then
\* stops for good: it stays neither in the chunk-draining loop nor waiting for the
\* search-results task forever.
C30_CallTerminates == (cpc # "idle") ~> []Terminated

\* C30 witness: a call that drained a stream of several pieces, waited for
\* the search-results task and ended with completed.
C30_Witness ==
    /\ Terminated
    /\ events[Len(events)].type = "completed"
    /\ ~request.env.stream.raises
    /\ ChunkEvents >= 2
    /\ search_results_task.status = "done"

----------------------------------------------------------------------------
(* Claims about RAGPipelineFactory.create_pipeline (SpecFactory).          *)

\* the adapters among the components the factory constructs
AdapterClasses == {"ElasticSearcher", "GeminiGenerator", "GoogleEmbedder", "MinIOStorage", "GCSStorage"}

\* C11: create_pipeline with a vector-needing search method on an index
\* absent from the index-to-model registry raises a configuration error
\* (ValueError) before any search, generation, embedding or storage adapter
\* has been constructed (the search engine answers the constructor's ping).
C11_UnmappedIndexRaisesBeforeAdapters ==
    (/\ Returned /\ op.name = "create_pipeline" /\ op.ping
     /\ op.config.search.search_method \in VectorMethods
     /\ get_embedding_model_for_index(op.config.search.index_name) = Absent)
    => /\ ret.status = "raise" /\ ret.exc = "ValueError"
       /\ \A i \in DOMAIN ret.constructed : ret.constructed[i] \notin AdapterClasses

----------------------------------------------------------------------------
(* Claims about ChatService._format_search_results (SpecFormat).           *)

\* C12: _format_search_results returns exactly one SearchResult per input
\* hit, in hit order, whose score is the hit's raw engine score, for any raw
\* score including the -1 sentinel and values above 1: no hit is dropped and
\* no score is clamped.
C12_OneResultPerHitWithRawScore ==
    (Returned /\ op.name = "format_search_results") =>
        /\ Len(ret.value) = Len(op.hits)
        /\ \A i \in DOMAIN op.hits :
              /\ ret.value[i].score = op.hits[i].score
              /\ ret.value[i].pageNumber = ParseInt(op.hits[i].page_number)

----------------------------------------------------------------------------
(* Claims about get_chat_service (SpecDeps).                               *)

\* C13: under any interleaving of concurrent requests, at most one
\* ChatService is ever constructed in the process and every request that is
\* served holds that same instance.
C13_OneChatServicePerProcess ==
    op.name = "get_chat_service" =>
        /\ shared.instances <= 1
        /\ \A t, u \in RequestIds :
              (threads[t].pc = "served" /\ threads[u].pc = "served")
                  => threads[t].chat_service = threads[u].chat_service

----------------------------------------------------------------------------
(* Claims about RRF fusion (SpecFusion).                                   *)

Fused == Returned /\ op.name = "apply_rrf_fusion"

TextRank(hit) == RankOf(hit.id, op.text_results)
VectorRank(hit) == RankOf(hit.id, op.vector_results)

\* C14: for two ranked lists that are not both empty and rrf_k > 0, every
\* score _apply_rrf_fusion returns lies in [0, 1] (0..10 tenths), and a
\* document ranked first in both lists gets exactly 1.0.
C14_FusedScoresInUnitInterval ==
    (Fused /\ (op.text_results # << >> \/ op.vector_results # << >>)) =>
        /\ ret.value # << >>
        /\ \A i \in DOMAIN ret.value :
              /\ ret.value[i].score >= 0 /\ ret.value[i].score <= 10
              /\ (TextRank(ret.value[i]) = 1 /\ VectorRank(ret.value[i]) = 1) => ret.value[i].score = 10

\* C14 witness: a fusion with the default rrf_k in which one document is
\* first in both lists and another scores strictly between 0 and 1.
C14_Witness ==
    /\ Fused /\ op.rrf_k = DEFAULT_RRF_K
    /\ \E i, j \in DOMAIN ret.value :
          /\ TextRank(ret.value[i]) = 1 /\ VectorRank(ret.value[i]) = 1 /\ ret.value[i].score = 10
          /\ ret.value[j].score > 0 /\ ret.value[j].score < 10

\* the returned score of a document that is at rank r in both lists, under
\* the same rrf_k and rounding
BothAtRank(r) ==
    LET both == apply_rrf_fusion(RankedList(700, r), RankedList(700, r), op.rrf_k,
                                 op.top_k, op.half_up)
    IN (CHOOSE h \in Range(both) : h.id = 700 + r).score

\* the documents of the result that are in one list only, with their rank
InOneListOnly(i) == (TextRank(ret.value[i]) = 0) # (VectorRank(ret.value[i]) = 0)

RankInItsList(i) == TextRank(ret.value[i]) + VectorRank(ret.value[i])

\* C15 as stated: a document in only one list at rank r gets a strictly
\* lower returned (rounded) score than a document in both lists at rank r,
\* for every rank r.
C15_SingleListStrictlyLower ==
    Fused => \A i \in DOMAIN ret.value :
                InOneListOnly(i) => ret.value[i].score < BothAtRank(RankInItsList(i))

\* C15 amended: the returned score of a document in only one list at rank r
\* is never higher than that of a document in both lists at rank r, and it
\* is strictly lower whenever the latter is at least 0.2; below that the
\* rounding to one decimal can make them equal.
C15_SingleListNeverHigher ==
    Fused => \A i \in DOMAIN ret.value :
                InOneListOnly(i) =>
                    /\ ret.value[i].score <= BothAtRank(RankInItsList(i))
                    /\ BothAtRank(RankInItsList(i)) >= 2
                          => ret.value[i].score < BothAtRank(RankInItsList(i))

\* C15 witness: a document in one list only, at a rank deep enough that its
\* score and that of a document in both lists at the same rank are both 0.1,
\* next to one at rank 1 that scores strictly lower than 1.0.
C15_Witness ==
    /\ Fused
    /\ \E i, j \in DOMAIN ret.value :
          /\ InOneListOnly(i) /\ RankInItsList(i) = MaxRank
          /\ ret.value[i].score = 1 /\ BothAtRank(MaxRank) = 1
          /\ InOneListOnly(j) /\ RankInItsList(j) = 1 /\ ret.value[j].score < BothAtRank(1)

----------------------------------------------------------------------------
(* Claims about the folder filters (SpecFilter).                           *)

Filtered == Returned /\ op.name \in {"create_folder_filters", "create_filters"}

\* positions of the '&' separators of the filter string, with both ends
AmpersandAt == { i \in DOMAIN op.user_filter : op.user_filter[i] = "&" }
                   \cup {0, Len(op.user_filter) + 1}

\* the k-th smallest separator position, k from 1
Separator(k) ==
    CHOOSE p \in AmpersandAt : Cardinality({ q \in AmpersandAt : q < p }) = k - 1

\* the k-th '&'-separated term
Term(k) == SubSeq(op.user_filter, Separator(k) + 1, Separator(k + 1) - 1)

\* what follows the last '/' of a text
FinalSegment(t) ==
    LET slashes == { i \in DOMAIN t : t[i] = "/" }
        last == IF slashes = {} THEN 0 ELSE CHOOSE i \in slashes : \A j \in slashes : j <= i
    IN SubSeq(t, last + 1, Len(t))

\* a text without the blanks around it
Trimmed(t) ==
    LET inked == { i \in DOMAIN t : t[i] # " " }
    IN IF inked = {} THEN << >>
       ELSE SubSeq(t, CHOOSE i \in inked : \A j \in inked : i <= j,
                      CHOOSE i \in inked : \A j \in inked : j <= i)

\* the trimmed final segments of the terms, in term order, blank ones left out
FinalFolders ==
    SelectSeq([k \in 1..(Cardinality(AmpersandAt) - 1) |-> Trimmed(FinalSegment(Term(k)))],
              LAMBDA v : v # << >>)

\* C16: create_folder_filters splits the filter string on '&' and yields, in
\* term order, exactly one phrase-match clause per term whose final
\* '/'-separated segment is non-empty after trimming, carrying only that
\* final segment; an empty or whitespace-only filter string yields no clause.
C16_OneClausePerTermWithFinalSegment ==
    Filtered =>
        /\ ret.value = [k \in DOMAIN FinalFolders |->
                          [match_phrase |-> [field |-> "gcs_path", value |-> FinalFolders[k]]]]
        /\ Trimmed(op.user_filter) = << >> => ret.value = << >>

\* C16 witness: "S/I & P/R" gives the two clauses on "I" and "R", in that
\* order.
C16_Witness ==
    /\ Filtered /\ op.name = "create_folder_filters"
    /\ op.user_filter = SampleFilter
    /\ ret.value = << [match_phrase |-> [field |-> "gcs_path", value |-> << "I" >>]],
                      [match_phrase |-> [field |-> "gcs_path", value |-> << "R" >>]] >>

----------------------------------------------------------------------------
(* Claims about image context under concurrency (SpecContext).             *)

BuildingContext == op.name = "build_context"

\* C20: two requests that build image context concurrently never write the
\* same local temp path, so no request reads, overwrites or removes a temp
\* file written by another request, even with the same image at the same
\* hit index.
C20_TempPathsNeverShared ==
    BuildingContext =>
        \A t, u \in BuilderIds :
            t # u =>
                /\ \A a \in threads[t].touched, b \in threads[u].touched :
                      (a.act = "write" /\ b.act = "write") => a.path # b.path
                /\ \A a \in threads[t].touched : a.owner = t

\* the hits of a request whose image was downloaded and read
ImagesRead(t) ==
    { i \in 0..(Len(threads[t].hits) - 1) :
        /\ threads[t].hits[i + 1] # << >>
        /\ \E a \in threads[t].touched :
              a.act = "read" /\ a.path = LocalPath(i, threads[t].hits[i + 1]) }

\* C21: when build_context returns, no local temp file of a hit it tried to
\* download is left, whether the download failed, the read failed or both
\* succeeded, and the parts are those of exactly the hits whose download and
\* read succeeded: a failure skips only its own hit.
C21_TempFilesCleanedOnEveryPath ==
    BuildingContext =>
        \A t \in BuilderIds :
            threads[t].pc = "done" =>
                /\ \A f \in shared : f.writer # t
                /\ Len(threads[t].parts) = Cardinality(ImagesRead(t))

----------------------------------------------------------------------------
(* Claims about the result lists handed to HTTP clients (SpecRun).         *)

ServiceCall == Returned /\ op.name \in {"generate_response", "get_search_results"}

\* what run did in a generate_response call
ResponseRun == run(config, wiring, op.user_filter, op.env)

\* C27: the SearchResult lists of ChatResponse, of /search and of the
\* search_results stream event are built from the hits the ranked search
\* returned and from nothing else: no hit they are built from is an expansion
\* hit, also when tolerance > 0 and expansion hits were in the answer's
\* context.
C27_ResultListsFromOriginalHitsOnly ==
    /\ ServiceCall =>
          /\ ret.status = "return" =>
                /\ ret.formatted_hits \in {Retrieved.hits, << >>}
                /\ \A i \in DOMAIN ret.formatted_hits :
                      /\ ret.formatted_hits[i].score # EXPANDED_SCORE
                      /\ ret.formatted_hits[i] \in Range(op.env.engine.hits)
                /\ ret.searchResults = format_search_results(ret.formatted_hits)
          /\ ret.status = "raise" => op.name = "get_search_results"
    /\ (Returned /\ op.name = "get_search_results_sync") =>
          ret.result = (IF Retrieved.status = "raise" THEN << >>
                        ELSE format_search_results(Retrieved.hits))

\* C27 witness: generate_response with tolerance > 0: the answer's context
\* held expansion hits, the list was built from the ranked hits alone.
C27_Witness ==
    /\ ServiceCall /\ op.name = "generate_response"
    /\ config.tolerance > 0
    /\ \E i \in DOMAIN ResponseRun.total_hits : ResponseRun.total_hits[i].score = EXPANDED_SCORE
    /\ ret.formatted_hits = ResponseRun.hits
    /\ ret.formatted_hits # << >>

----------------------------------------------------------------------------
(* Claims about update_search_config (SpecConfig).                         *)

\* the search configuration the q-th pipeline uses
ConfigOfPipeline(sh, q) == sh.heap[sh.pipelines[q]]

\* C29: update_search_config on a pipeline changes the named, existing fields
\* of that pipeline's search configuration and nothing else: the search
\* configuration of every other pipeline and the process-wide default config
\* stay as they were.
C29_UpdateChangesOnlyItsPipeline ==
    [][ op'.name = "update_search_config" =>
          /\ \A k \in DOMAIN ConfigOfPipeline(shared, op'.pipeline) :
                ConfigOfPipeline(shared', op'.pipeline)[k] =
                    IF k \in DOMAIN op'.kwargs THEN op'.kwargs[k]
                    ELSE ConfigOfPipeline(shared, op'.pipeline)[k]
          /\ DOMAIN ConfigOfPipeline(shared', op'.pipeline) =
                DOMAIN ConfigOfPipeline(shared, op'.pipeline)
          /\ \A q \in DOMAIN shared.pipelines \ {op'.pipeline} :
                ConfigOfPipeline(shared', q) = ConfigOfPipeline(shared, q)
          /\ shared'.heap[DEFAULT_CONFIG.search] = shared.heap[DEFAULT_CONFIG.search]
      ]_vars

====
